---- MODULE Spec2Model ----
(***************************************************************************)
(* A model of the thermo-raw reader (crates/thermo-raw): the chromatogram  *)
(* engine of an opened RawFile (xic, xic_ms1, xic_batch_ms1 and their      *)
(* with-progress variants, run by parallel workers), the lazily            *)
(* initialised scan-event template list, and the open() pipeline.          *)
(*                                                                         *)
(* m/z values are integers in thousandths (1 m/z = MZ_UNIT units) and ppm  *)
(* tolerances are multiples of 10, so that the window  mz -/+ mz*ppm*1e-6  *)
(* is computed exactly.                                                    *)
(* Sequences are 1-based: scan index idx of the code is position idx+1.    *)
(***************************************************************************)
EXTENDS Integers, Sequences, FiniteSets, TLC

VARIABLES
    \* ---- chromatogram engine (an opened RawFile and one call on it) ----
    file,       \* the opened file: scan_index entries, trailer layout
    call,       \* the operation in progress: op name and its targets
    pending,    \* scan positions no worker has taken yet
    running,    \* running[w]: the position worker w is processing, 0 if idle
    slots,      \* slots[i]: the closure's result for position i, once computed
    finished,   \* positions in the order the workers completed them
    counter,    \* the shared ProgressCounter (AtomicU64)
    counter0,   \* value of the counter when the call started
    ret,        \* the value returned by the call
    \* ---- scan_events: OnceLock<Vec<ScanEvent>> ----
    once,       \* the OnceLock cell: state, value, number of initialisations
    tpc,        \* tpc[t]: position of reader thread t
    building,   \* building[t]: the Vec the initialising closure of t is filling
    observed,   \* observed[t]: what the latest access of thread t saw
    \* ---- open(): RawFile::from_data on a file image, then scan(n) ----
    data,             \* the file image handed to from_data
    build,            \* build profile: "debug" (overflow checks) or "release"
    opc,              \* the stage from_data is about to run
    finnigan_offset,  \* local of from_data: offset of the Finnigan magic
    ver,              \* local of from_data: file_header.version
    raw_file_info,    \* local of from_data: the RawFileInfo found
    run_header,       \* local of from_data: the parsed RunHeader
    n_scans,          \* local of from_data: run_header.n_scans()
    result,           \* what from_data returned: Ok(handle), Err(e) or a panic
    scanres,          \* the last scan(n) call on the handle and its result
    \* ---- BinaryReader: a cursor over a byte buffer ----
    reader,           \* the reader: its buffer and cursor position
    rret,             \* the last operation on the reader and what it returned
    \* ---- functions of one scan: decode_scan, enrich_scan, TrailerLayout ----
    arg,              \* the input the function is applied to
    out,              \* what it returned
    \* ---- thermo-raw-gui: one conversion run and its cancellation ----
    files,            \* AppState.files: status and n_scans of each entry
    output_dir,       \* AppState.output_dir is Some
    phase,            \* AppState.phase
    cancel_flag,      \* AppState.cancel_flag is Some
    convert_handle,   \* AppState.convert_handle is Some
    cancel,           \* the AtomicBool shared with the worker thread
    thread,           \* the worker thread: position, its files, its results
    cancelled_at      \* history: the worker's progress when cancel was set

xicVars  == <<file, call, pending, running, slots, finished, counter, counter0, ret>>
onceVars == <<once, tpc, building, observed>>
openVars == <<data, build, opc, finnigan_offset, ver, raw_file_info, run_header,
              n_scans, result, scanres>>
readerVars == <<reader, rret>>
fnVars   == <<arg, out>>
guiVars  == <<files, output_dir, phase, cancel_flag, convert_handle, cancel,
              thread, cancelled_at>>
vars     == <<xicVars, onceVars, openVars, readerVars, fnVars, guiVars>>

\* The variables a chromatogram call, a template access and an open() leave
\* untouched.
notXicVars  == <<onceVars, openVars, readerVars, fnVars, guiVars>>
notOnceVars == <<call, pending, running, slots, finished, counter, counter0, ret,
                 openVars, readerVars, fnVars, guiVars>>
notOpenVars == <<xicVars, onceVars, readerVars, fnVars, guiVars>>
notReaderVars == <<xicVars, onceVars, openVars, fnVars, guiVars>>
notFnVars   == <<xicVars, onceVars, openVars, readerVars, guiVars>>
notGuiVars  == <<xicVars, onceVars, openVars, readerVars, fnVars>>

-----------------------------------------------------------------------------
\* Bounds of the model.
MaxScans   == 2     \* longest scan index explored
NumWorkers == 2     \* parallel workers (rayon threads)

\* Parts per million: the 1e-6 of  half = mz * ppm * 1e-6.
PPM == 1000000
\* Number of model m/z units in 1 m/z.
MZ_UNIT == 1000

Workers == 1..NumWorkers


RECURSIVE SeqSum(_)
SeqSum(s) == IF s = <<>> THEN 0 ELSE Head(s) + SeqSum(Tail(s))

-----------------------------------------------------------------------------
\* Strings read from trailer records are sequences of one-character strings.
StartsWith(s, p) == Len(s) >= Len(p) /\ SubSeq(s, 1, Len(p)) = p

Contains(s, p) ==
    \E k \in 1..(Len(s) - Len(p) + 1) : SubSeq(s, k, k + Len(p) - 1) = p

STR_SP_MS_SP   == <<" ", "m", "s", " ">>
STR_MS_SP      == <<"m", "s", " ">>
STR_SP_FULL_MS == <<" ", "F", "u", "l", "l", " ", "m", "s", " ">>

\* A variant of is_ms1_scan that asks the filter text first.
is_ms1_scan_text_first(f, i) ==
    LET layout == f.trailer_layout
        rec    == f.scan_index[i].trailer
    IN  IF layout.present
        THEN IF layout.filter_text_idx /\ rec.filter.ok
             THEN \/ Contains(rec.filter.str, STR_SP_MS_SP)
                  \/ StartsWith(rec.filter.str, STR_MS_SP)
                  \/ Contains(rec.filter.str, STR_SP_FULL_MS)
             ELSE IF layout.master_scan_idx /\ rec.master.ok
                  THEN rec.master.val = 0
                  ELSE TRUE
        ELSE TRUE
\* is_ms1_scan: trailer Master Scan Number first, then the filter text,
\* and MS1 when neither can be read or there is no trailer layout.
is_ms1_scan(f, i) ==
    LET layout == f.trailer_layout
        rec    == f.scan_index[i].trailer
    IN  IF layout.present
        THEN IF layout.master_scan_idx /\ rec.master.ok
             THEN rec.master.val = 0
             ELSE IF layout.filter_text_idx /\ rec.filter.ok
                  THEN \/ Contains(rec.filter.str, STR_SP_MS_SP)
                       \/ StartsWith(rec.filter.str, STR_MS_SP)
                       \/ Contains(rec.filter.str, STR_SP_FULL_MS)
                  ELSE TRUE
        ELSE TRUE

-----------------------------------------------------------------------------
\* Packet type classes selected by the low 16 bits of packet_type.
PacketTypeId(e) == e.packet_type % 65536
IsFtlt(id)   == id \in 18..21
IsLegacy(id) == id \in (0..5) \cup (14..17)

NoPeaks == [err |-> FALSE, peaks |-> <<>>]

\* What the bytes at the entry's offset hold is a field of the entry:
\* "ok" (a well-formed packet with e.peaks), "bad_header" (the packet header
\* or the segment ranges cannot be read) or "bad_peaks" (the header reads, but
\* the profile section or the peak list runs past the buffer, or a peak count
\* is unreasonable).
\* decode_ftlt_centroids_only: every read is propagated with `?`.
decode_ftlt_centroids_only(e) ==
    IF e.packet = "ok" THEN [err |-> FALSE, peaks |-> e.peaks]
    ELSE [err |-> TRUE, peaks |-> <<>>]
\* decode_legacy_centroids_only: the header, the skip over the profile and
\* decode_centroid are all propagated.
decode_legacy_centroids_only(e) ==
    IF e.packet = "ok" THEN [err |-> FALSE, peaks |-> e.peaks]
    ELSE [err |-> TRUE, peaks |-> <<>>]

\* decode_centroids_only: bounds checks and the empty-scan case give empty
\* arrays; the packet decoders give the outcome of decoding the bytes at the
\* scan's offset (an error or the centroid list).
decode_centroids_only(f, e) ==
    LET abs_offset == f.data_addr + e.offset
    IN  IF e.data_size > 0 /\ abs_offset + e.data_size > f.data_len THEN NoPeaks
        ELSE IF e.data_size = 0 /\ abs_offset >= f.data_len THEN NoPeaks
        ELSE IF e.number_packets = 0 /\ e.data_size = 0 THEN NoPeaks
        ELSE IF IsFtlt(PacketTypeId(e)) THEN decode_ftlt_centroids_only(e)
        ELSE IF IsLegacy(PacketTypeId(e)) THEN decode_legacy_centroids_only(e)
        ELSE NoPeaks

\* cmz.iter().zip(cint).filter(mz >= low && mz <= high).map(int).sum()
SumInWindow(peaks, low, high) ==
    LET InWin(p) == p.mz >= low /\ p.mz <= high
    IN  SeqSum([k \in 1..Len(SelectSeq(peaks, InWin)) |->
                    SelectSeq(peaks, InWin)[k].int])

\* half = mz * ppm * 1e-6
HalfWidth(mz, ppm) == (mz * ppm) \div PPM
WindowLow(t)  == t.mz - HalfWidth(t.mz, t.ppm)
WindowHigh(t) == t.mz + HalfWidth(t.mz, t.ppm)

-----------------------------------------------------------------------------
\* Result of the per-scan closure: None, or Some((entry.rt, intensities)).
\* idx records which scan-index position produced the value.
NoneResult(i) == [some |-> FALSE, idx |-> i, rt |-> 0, ints |-> <<>>]
SomeResult(i, rt, ints) == [some |-> TRUE, idx |-> i, rt |-> rt, ints |-> ints]

Zeros(n) == [k \in 1..n |-> 0]

\* The index-level prune of xic_inner: the entry declares an m/z range and
\* the target window lies outside it.
OutsideIndexRange(e, low, high) ==
    /\ e.low_mz > 0
    /\ e.high_mz > 0
    /\ (e.high_mz < low \/ e.low_mz > high)

\* A variant of xic_inner_closure: a decode error drops the scan's point.
xic_inner_closure_drop(f, i, t, ms1_only) ==
    LET e    == f.scan_index[i]
        low  == WindowLow(t)
        high == WindowHigh(t)
        d    == decode_centroids_only(f, e)
    IN  IF ms1_only /\ ~is_ms1_scan(f, i) THEN NoneResult(i)
        ELSE IF OutsideIndexRange(e, low, high) THEN SomeResult(i, e.rt, <<0>>)
        ELSE IF d.err THEN NoneResult(i)
        ELSE SomeResult(i, e.rt, <<SumInWindow(d.peaks, low, high)>>)

\* The closure of xic_inner for scan position i.
xic_inner_closure(f, i, t, ms1_only) ==
    LET e    == f.scan_index[i]
        low  == WindowLow(t)
        high == WindowHigh(t)
        d    == decode_centroids_only(f, e)
    IN  IF ms1_only /\ ~is_ms1_scan(f, i) THEN NoneResult(i)
        ELSE IF OutsideIndexRange(e, low, high) THEN SomeResult(i, e.rt, <<0>>)
        ELSE IF d.err THEN SomeResult(i, e.rt, <<0>>)
        ELSE SomeResult(i, e.rt, <<SumInWindow(d.peaks, low, high)>>)

\* A variant of xic_inner_with_progress_closure: the decode-error arm does not
\* return, so the final tick runs as well.
xic_inner_with_progress_closure_fallthrough(f, i, t, ms1_only) ==
    LET e    == f.scan_index[i]
        low  == WindowLow(t)
        high == WindowHigh(t)
        d    == decode_centroids_only(f, e)
    IN  IF ms1_only /\ ~is_ms1_scan(f, i)
        THEN [res |-> NoneResult(i), ticks |-> 1]
        ELSE IF OutsideIndexRange(e, low, high)
        THEN [res |-> SomeResult(i, e.rt, <<0>>), ticks |-> 1]
        ELSE IF d.err
        THEN [res |-> SomeResult(i, e.rt, <<0>>), ticks |-> 2]
        ELSE [res |-> SomeResult(i, e.rt, <<SumInWindow(d.peaks, low, high)>>),
              ticks |-> 1]

\* The closure of xic_inner_with_progress: the same value, and the number of
\* progress::tick calls made on the path taken.  The decode-error arm ticks
\* and returns from the closure; every other path reaches the final tick.
xic_inner_with_progress_closure(f, i, t, ms1_only) ==
    LET e    == f.scan_index[i]
        low  == WindowLow(t)
        high == WindowHigh(t)
        d    == decode_centroids_only(f, e)
    IN  IF ms1_only /\ ~is_ms1_scan(f, i)
        THEN [res |-> NoneResult(i), ticks |-> 1]
        ELSE IF OutsideIndexRange(e, low, high)
        THEN [res |-> SomeResult(i, e.rt, <<0>>), ticks |-> 1]
        ELSE IF d.err
        THEN [res |-> SomeResult(i, e.rt, <<0>>), ticks |-> 1]
        ELSE [res |-> SomeResult(i, e.rt, <<SumInWindow(d.peaks, low, high)>>),
              ticks |-> 1]

\* any_overlap of the batch closures: some target window meets the entry's
\* declared m/z range, or the entry declares none.
AnyOverlap(e, targets) ==
    IF e.low_mz > 0 /\ e.high_mz > 0
    THEN \E k \in 1..Len(targets) :
            e.high_mz >= WindowLow(targets[k]) /\ e.low_mz <= WindowHigh(targets[k])
    ELSE TRUE

BatchIntensities(peaks, targets) ==
    [k \in 1..Len(targets) |->
        SumInWindow(peaks, WindowLow(targets[k]), WindowHigh(targets[k]))]

\* The closure of xic_batch_ms1 for scan position i.
xic_batch_ms1_closure(f, i, targets) ==
    LET e == f.scan_index[i]
        d == decode_centroids_only(f, e)
    IN  IF ~is_ms1_scan(f, i) THEN NoneResult(i)
        ELSE IF ~AnyOverlap(e, targets)
        THEN SomeResult(i, e.rt, Zeros(Len(targets)))
        ELSE IF d.err THEN SomeResult(i, e.rt, Zeros(Len(targets)))
        ELSE SomeResult(i, e.rt, BatchIntensities(d.peaks, targets))

\* The closure of xic_batch_ms1_with_progress, with its tick count.
xic_batch_ms1_with_progress_closure(f, i, targets) ==
    LET e == f.scan_index[i]
        d == decode_centroids_only(f, e)
    IN  IF ~is_ms1_scan(f, i)
        THEN [res |-> NoneResult(i), ticks |-> 1]
        ELSE IF ~AnyOverlap(e, targets)
        THEN [res |-> SomeResult(i, e.rt, Zeros(Len(targets))), ticks |-> 1]
        ELSE IF d.err
        THEN [res |-> SomeResult(i, e.rt, Zeros(Len(targets))), ticks |-> 1]
        ELSE [res |-> SomeResult(i, e.rt, BatchIntensities(d.peaks, targets)),
              ticks |-> 1]

\* progress::tick: counter.fetch_add(1, Relaxed) on an AtomicU64.  The
\* counter wraps at 2^64, far above every value a call can reach from the
\* starting values explored, so the addition is exact here.
tick(c) == c + 1

RECURSIVE TickTimes(_, _)
TickTimes(c, n) == IF n = 0 THEN c ELSE TickTimes(tick(c), n - 1)

\* A variant of Collect: results pushed in the order the workers completed.
CollectByCompletion(s, order) == [i \in 1..Len(order) |-> s[order[i]]]

\* par_iter().enumerate().map(..).collect(): the collected Vec holds the
\* closure results by scan-index position, whatever order they completed in.
Collect(s, order) == [i \in 1..Cardinality(DOMAIN s) |-> s[i]]

IsSome(r) == r.some

\* results.into_iter().flatten().collect()
Flatten(results) == SelectSeq(results, IsSome)

\* Chromatogram { rt, intensity } for target k out of the filtered results;
\* src is the scan-index position each point came from.
ChromatogramOf(filtered, k) ==
    [rt        |-> [j \in 1..Len(filtered) |-> filtered[j].rt],
     intensity |-> [j \in 1..Len(filtered) |-> filtered[j].ints[k]],
     src       |-> [j \in 1..Len(filtered) |-> filtered[j].idx]]

-----------------------------------------------------------------------------
\* The opened files explored.  A scan-index entry carries the fields the
\* chromatogram engine reads, its trailer record, and pkt, the outcome of the
\* packet decoder on the bytes at its offset.

FILTER_MS1 == <<"F", "T", "M", "S", " ", "+", " ", "F", "u", "l", "l", " ",
                "m", "s", " ", "[", "1", "]">>
FILTER_MS2 == <<"F", "T", "M", "S", " ", "+", " ", "F", "u", "l", "l", " ",
                "m", "s", "2", " ", "5", "@", "h", "c", "d">>

Field(ok, val) == [ok |-> ok, val |-> val]
TrailerRecord(master, filter) ==
    [master |-> master, filter |-> filter,
     mono_mz |-> Field(TRUE, 524), charge |-> Field(TRUE, 2),
     isolation_width |-> Field(TRUE, 2)]
TrailerMs1 == TrailerRecord([ok |-> TRUE, val |-> 0],
                            [ok |-> TRUE, str |-> FILTER_MS1])
TrailerMs2 == TrailerRecord([ok |-> TRUE, val |-> 7],
                            [ok |-> TRUE, str |-> FILTER_MS2])
\* Master Scan Number unreadable: the filter text decides.
TrailerTextMs2 == TrailerRecord([ok |-> FALSE, val |-> 0],
                                [ok |-> TRUE, str |-> FILTER_MS2])

MZ_200 == 200 * MZ_UNIT
MZ_500 == 500 * MZ_UNIT

\* Centroids ascending by m/z; 200.002 is the upper edge of a 10 ppm window
\* around 200, 200.003 lies just outside it.
PeaksFull == << [mz |-> MZ_200,        int |-> 100],
                [mz |-> MZ_200 + 2, int |-> 10],
                [mz |-> MZ_200 + 3, int |-> 1],
                [mz |-> MZ_500,        int |-> 200] >>

Entry(rt, low_mz, high_mz, pkt, trailer) ==
    [rt |-> rt, low_mz |-> low_mz, high_mz |-> high_mz,
     tic |-> 700 + rt, base_peak_intensity |-> 90 + rt, base_peak_mz |-> 445,
     packet |-> IF pkt.err THEN "bad_header" ELSE "ok", peaks |-> pkt.peaks,
     scan_event |-> 0,
     offset |-> 0, data_size |-> 0, number_packets |-> 1, packet_type |-> 20,
     pkt |-> pkt, trailer |-> trailer]

DecodeOk(peaks) == [err |-> FALSE, peaks |-> peaks]
DecodeErr       == [err |-> TRUE, peaks |-> <<>>]

\* An MS1 scan without a declared m/z range.
E_ms1    == Entry(1, 0, 0, DecodeOk(PeaksFull), TrailerMs1)
\* An MS2 scan (Master Scan Number 7).
E_ms2    == Entry(2, 0, 0, DecodeOk(PeaksFull), TrailerMs2)
\* An MS1 scan whose packet fails to decode.
E_bad    == Entry(4, 0, 0, DecodeErr, TrailerMs1)
\* An MS1 scan declaring the range 300..600 with centroids below it.
E_wide   == Entry(5, 300 * MZ_UNIT, 600 * MZ_UNIT, DecodeOk(PeaksFull), TrailerMs1)
\* An MS2 scan told apart by its filter text only, failing to decode.
E_bad2   == Entry(6, 0, 0, DecodeErr, TrailerTextMs2)

EntryKinds == {E_ms1, E_ms2, E_bad, E_wide, E_bad2}

LayoutFull == [present |-> TRUE, master_scan_idx |-> TRUE, filter_text_idx |-> TRUE]
LayoutNone == [present |-> FALSE, master_scan_idx |-> FALSE, filter_text_idx |-> FALSE]

ScanIndexes == UNION {[1..n -> EntryKinds] : n \in 0..MaxScans}

OpenedFile(si, layout) ==
    [scan_index |-> si, data_addr |-> 64, data_len |-> 4096, trailer_layout |-> layout,
     run_header |-> [first_scan |-> <<0, 1>>], scan_events |-> << >>]

Files == {OpenedFile(si, LayoutFull) : si \in ScanIndexes}
             \cup {OpenedFile(<<e>>, LayoutNone) : e \in {E_ms2, E_bad2}}

Target(mz, ppm) == [mz |-> mz, ppm |-> ppm]

SingleOps    == {"xic", "xic_ms1", "xic_with_progress", "xic_ms1_with_progress"}
BatchOps     == {"xic_batch_ms1", "xic_batch_ms1_with_progress"}
ProgressOps  == {"xic_with_progress", "xic_ms1_with_progress",
                 "xic_batch_ms1_with_progress"}
Ms1OnlyOps   == {"xic_ms1", "xic_ms1_with_progress"}
\* tic and bpc read the scan index only.
IndexOps     == {"tic", "bpc"}

SingleTargets == {Target(MZ_200, 10), Target(MZ_500, 10), Target(MZ_200, 0)}
BatchTargets  == { <<>>,
                   <<Target(MZ_200, 10)>>,
                   <<Target(MZ_200, 10), Target(MZ_500, 10)>>,
                   <<Target(MZ_500, 10), Target(MZ_200, 0)>> }

Calls == {[op |-> o, targets |-> <<t>>] : o \in SingleOps, t \in SingleTargets}
             \cup {[op |-> o, targets |-> ts] : o \in BatchOps, ts \in BatchTargets}
             \cup {[op |-> o, targets |-> <<>>] : o \in IndexOps}

OnceIdle ==
    /\ once = [state |-> "uninit", value |-> <<>>, inits |-> 0]
    /\ tpc = <<>>
    /\ building = <<>>
    /\ observed = <<>>

U32Zero == <<0, 0>>

OpenIdle ==
    /\ data = <<>>
    /\ build = "release"
    /\ opc = "done"
    /\ finnigan_offset = 0
    /\ ver = U32Zero
    /\ raw_file_info = <<>>
    /\ run_header = <<>>
    /\ n_scans = U32Zero
    /\ result = [tag |-> "none", at |-> "none"]
    /\ scanres = [tag |-> "none"]

ReaderIdle ==
    /\ reader = << >>
    /\ rret = << >>

FnIdle ==
    /\ arg = << >>
    /\ out = << >>

NoThread == [pc |-> "none", files |-> << >>, next |-> 1, results |-> << >>]
NotCancelled == [some |-> FALSE]
GuiIdle ==
    /\ files = << >>
    /\ output_dir = FALSE
    /\ phase = "Idle"
    /\ cancel_flag = FALSE
    /\ convert_handle = FALSE
    /\ cancel = FALSE
    /\ thread = NoThread
    /\ cancelled_at = NotCancelled

XicIdle ==
    /\ call = [op |-> "none", targets |-> <<>>]
    /\ pending = {}
    /\ running = [w \in Workers |-> 0]
    /\ slots = <<>>
    /\ finished = <<>>
    /\ counter = 0
    /\ counter0 = 0
    /\ ret = [tag |-> "none", chroms |-> <<>>]

NumScans == Len(file.scan_index)

InitXic ==
    /\ GuiIdle
    /\ file \in Files
    /\ call \in Calls
    /\ pending = IF call.op \in IndexOps THEN {} ELSE 1..Len(file.scan_index)
    /\ running = [w \in Workers |-> 0]
    /\ slots = <<>>
    /\ finished = <<>>
    /\ counter0 = IF call.op \in ProgressOps THEN 3 ELSE 0
    /\ counter = counter0
    /\ ret = [tag |-> "none", chroms |-> <<>>]
    /\ OnceIdle
    /\ OpenIdle
    /\ ReaderIdle
    /\ FnIdle

\* A worker takes a scan-index position nobody has taken (work stealing:
\* any idle worker, any remaining position).
StartScan(w, i) ==
    /\ ret.tag = "none"
    /\ running[w] = 0
    /\ i \in pending
    /\ pending' = pending \ {i}
    /\ running' = [running EXCEPT ![w] = i]
    /\ UNCHANGED <<file, call, slots, finished, counter, counter0, ret>>
    /\ UNCHANGED notXicVars

Store(i, r) == [j \in (DOMAIN slots) \cup {i} |-> IF j = i THEN r ELSE slots[j]]

\* Worker w runs the closure of xic_inner on its position.
FinishXic(w) ==
    /\ running[w] # 0
    /\ call.op \in {"xic", "xic_ms1"}
    /\ LET i == running[w]
           r == xic_inner_closure(file, i, call.targets[1], call.op \in Ms1OnlyOps)
       IN  /\ slots' = Store(i, r)
           /\ finished' = Append(finished, i)
    /\ running' = [running EXCEPT ![w] = 0]
    /\ UNCHANGED <<file, call, pending, counter, counter0, ret>>
    /\ UNCHANGED notXicVars

\* Worker w runs the closure of xic_inner_with_progress on its position.
FinishXicProgress(w) ==
    /\ running[w] # 0
    /\ call.op \in {"xic_with_progress", "xic_ms1_with_progress"}
    /\ LET i == running[w]
           r == xic_inner_with_progress_closure(file, i, call.targets[1],
                                                call.op \in Ms1OnlyOps)
       IN  /\ slots' = Store(i, r.res)
           /\ finished' = Append(finished, i)
           /\ counter' = TickTimes(counter, r.ticks)
    /\ running' = [running EXCEPT ![w] = 0]
    /\ UNCHANGED <<file, call, pending, counter0, ret>>
    /\ UNCHANGED notXicVars

\* Worker w runs the closure of xic_batch_ms1 on its position.
FinishBatch(w) ==
    /\ running[w] # 0
    /\ call.op = "xic_batch_ms1"
    /\ LET i == running[w]
           r == xic_batch_ms1_closure(file, i, call.targets)
       IN  /\ slots' = Store(i, r)
           /\ finished' = Append(finished, i)
    /\ running' = [running EXCEPT ![w] = 0]
    /\ UNCHANGED <<file, call, pending, counter, counter0, ret>>
    /\ UNCHANGED notXicVars

\* Worker w runs the closure of xic_batch_ms1_with_progress on its position.
FinishBatchProgress(w) ==
    /\ running[w] # 0
    /\ call.op = "xic_batch_ms1_with_progress"
    /\ LET i == running[w]
           r == xic_batch_ms1_with_progress_closure(file, i, call.targets)
       IN  /\ slots' = Store(i, r.res)
           /\ finished' = Append(finished, i)
           /\ counter' = TickTimes(counter, r.ticks)
    /\ running' = [running EXCEPT ![w] = 0]
    /\ UNCHANGED <<file, call, pending, counter0, ret>>
    /\ UNCHANGED notXicVars

AllCollected ==
    /\ pending = {}
    /\ \A w \in Workers : running[w] = 0

\* xic_inner / xic_inner_with_progress after the parallel map: flatten the
\* collected results into one Chromatogram and return Ok.
ReturnXic ==
    /\ ret.tag = "none"
    /\ call.op \in SingleOps
    /\ AllCollected
    /\ ret' = [tag |-> "Ok",
               chroms |-> <<ChromatogramOf(Flatten(Collect(slots, finished)), 1)>>]
    /\ UNCHANGED <<file, call, pending, running, slots, finished, counter, counter0>>
    /\ UNCHANGED notXicVars

\* xic_batch_ms1 / xic_batch_ms1_with_progress after the parallel map:
\* transpose the filtered results into one Chromatogram per target.
ReturnBatch ==
    /\ ret.tag = "none"
    /\ call.op \in BatchOps
    /\ AllCollected
    /\ ret' = [tag |-> "Ok",
               chroms |-> [k \in 1..Len(call.targets) |->
                             ChromatogramOf(Flatten(Collect(slots, finished)), k)]]
    /\ UNCHANGED <<file, call, pending, running, slots, finished, counter, counter0>>
    /\ UNCHANGED notXicVars

\* chromatogram::build_tic / build_bpc: one point per index entry, in index
\* order, taken from the entry.
build_tic(entries) ==
    [rt        |-> [j \in 1..Len(entries) |-> entries[j].rt],
     intensity |-> [j \in 1..Len(entries) |-> entries[j].tic],
     src       |-> [j \in 1..Len(entries) |-> j]]
build_bpc(entries) ==
    [rt        |-> [j \in 1..Len(entries) |-> entries[j].rt],
     intensity |-> [j \in 1..Len(entries) |-> entries[j].base_peak_intensity],
     src       |-> [j \in 1..Len(entries) |-> j]]

Tic ==
    /\ ret.tag = "none"
    /\ call.op = "tic"
    /\ ret' = [tag |-> "Ok", chroms |-> <<build_tic(file.scan_index)>>]
    /\ UNCHANGED <<file, call, pending, running, slots, finished, counter, counter0>>
    /\ UNCHANGED notXicVars

Bpc ==
    /\ ret.tag = "none"
    /\ call.op = "bpc"
    /\ ret' = [tag |-> "Ok", chroms |-> <<build_bpc(file.scan_index)>>]
    /\ UNCHANGED <<file, call, pending, running, slots, finished, counter, counter0>>
    /\ UNCHANGED notXicVars

NextXic ==
    \/ Tic
    \/ Bpc
    \/ \E w \in Workers : \E i \in 1..MaxScans : StartScan(w, i)
    \/ \E w \in Workers : FinishXic(w)
    \/ \E w \in Workers : FinishXicProgress(w)
    \/ \E w \in Workers : FinishBatch(w)
    \/ \E w \in Workers : FinishBatchProgress(w)
    \/ ReturnXic
    \/ ReturnBatch

SpecXic == InitXic /\ [][NextXic]_vars

-----------------------------------------------------------------------------
\* Claims about the chromatogram engine (checked under SpecXic).

Returned == ret.tag = "Ok"

\* The scans that the operation in progress keeps: all of them for xic, the
\* MS1 scans for the MS1-only operations.
Kept(i) == call.op \in {"xic", "xic_with_progress"} \/ is_ms1_scan(file, i)

DecodeFails(i) == decode_centroids_only(file, file.scan_index[i]).err

StrictlyAscending(s) == \A a, b \in 1..Len(s) : a < b => s[a] < s[b]

\* C1: the points of the chromatograms returned by xic, xic_ms1 and
\* xic_batch_ms1 appear in ascending scan-index order (each point carrying
\* the retention time of its scan), whatever order the workers finished in.
C1_ScanOrder ==
    (Returned /\ call.op \in {"xic", "xic_ms1", "xic_batch_ms1"}) =>
        \A k \in 1..Len(ret.chroms) :
            /\ StrictlyAscending(ret.chroms[k].src)
            /\ \A p \in 1..Len(ret.chroms[k].src) :
                  ret.chroms[k].rt[p] = file.scan_index[ret.chroms[k].src[p]].rt

\* Two points were returned although the second scan completed first.
C1_Witness ==
    /\ Returned
    /\ call.op \in {"xic", "xic_ms1", "xic_batch_ms1"}
    /\ finished = <<2, 1>>
    /\ Len(ret.chroms) >= 1
    /\ ret.chroms[1].src = <<1, 2>>
    /\ ret.chroms[1].rt[1] > ret.chroms[1].rt[2]

\* The value of scan i when it is the only scan of the file.
AloneFile(i) == [file EXCEPT !.scan_index = <<file.scan_index[i]>>]

AloneInts(i) ==
    IF call.op \in BatchOps
    THEN xic_batch_ms1_closure(AloneFile(i), 1, call.targets).ints
    ELSE xic_inner_closure(AloneFile(i), 1, call.targets[1],
                           call.op \in Ms1OnlyOps).ints

PointOf(c, i) == CHOOSE p \in 1..Len(c.src) : c.src[p] = i

\* C2: in xic, xic_ms1 and xic_batch_ms1 the call returns Ok; a kept scan
\* whose centroid decode fails contributes a point with intensity 0 at its
\* own retention time; and every other kept scan contributes the value it
\* has when it is the only scan of the file.
C2_DecodeFailureIsolated ==
    (ret.tag # "none" /\ call.op \in {"xic", "xic_ms1", "xic_batch_ms1"}) =>
        /\ ret.tag = "Ok"
        /\ \A k \in 1..Len(ret.chroms) : \A i \in 1..NumScans :
              Kept(i) =>
                 /\ \E p \in 1..Len(ret.chroms[k].src) : ret.chroms[k].src[p] = i
                 /\ LET c == ret.chroms[k]
                        p == PointOf(c, i)
                    IN  /\ c.rt[p] = file.scan_index[i].rt
                        /\ DecodeFails(i) => c.intensity[p] = 0
                        /\ ~DecodeFails(i) => c.intensity[p] = AloneInts(i)[k]

\* A failing scan gave a zero point next to a scan with intensity.
C2_Witness ==
    /\ Returned
    /\ call.op \in {"xic", "xic_ms1", "xic_batch_ms1"}
    /\ NumScans = 2
    /\ DecodeFails(1) /\ Kept(1) /\ ~DecodeFails(2)
    /\ Len(ret.chroms) >= 1
    /\ ret.chroms[1].src = <<1, 2>>
    /\ ret.chroms[1].intensity[1] = 0
    /\ ret.chroms[1].intensity[2] > 0

C4_Counted ==
    call.op \in ProgressOps =>
        /\ counter = counter0 + Len(finished)
        /\ Returned => counter = counter0 + NumScans

C4_Step ==
    call.op \in ProgressOps =>
        /\ counter' >= counter
        /\ counter' - counter = Len(finished') - Len(finished)

XicMs1Alone(f, t) ==
    ChromatogramOf(
        Flatten([i \in 1..Len(f.scan_index) |-> xic_inner_closure(f, i, t, TRUE)]), 1)

\* C5: the j-th chromatogram returned by xic_batch_ms1 equals, point by
\* point in rt and intensity, the chromatogram xic_ms1 returns for target j.
C5_BatchEqualsSingle ==
    (Returned /\ call.op = "xic_batch_ms1") =>
        \A j \in 1..Len(call.targets) :
            /\ ret.chroms[j].rt = XicMs1Alone(file, call.targets[j]).rt
            /\ ret.chroms[j].intensity = XicMs1Alone(file, call.targets[j]).intensity

-----------------------------------------------------------------------------
\* The scan-event templates: scan_events: OnceLock<Vec<ScanEvent>>, filled by
\* scan_events_lazy() on first access and read by scan_events() and
\* get_conversion_params() from any thread.

NumReaders == 2     \* threads accessing the templates of one opened file

Readers == 1..NumReaders

MAX_SCAN_EVENTS == 10000

\* A template as parse_scan_event returns it; ok = FALSE stands for a record
\* on which parse_scan_event fails.
Event(ok, params) == [ok |-> ok, conversion_params |-> params]
EvA   == Event(TRUE, <<1, 2, 3, 4>>)
EvB   == Event(TRUE, <<>>)
EvBad == Event(FALSE, <<>>)

\* The stream at scan_events_addr: a u32 count, then the records present.
ParamsStream(n, evs) == [n_events |-> n, events |-> evs]

EventsFile(addr, len, stream, si) ==
    [scan_events_addr |-> addr, data_len |-> len, params |-> stream,
     scan_index |-> si]

\* Index entries referencing template 0, template 1 and a template that
\* does not exist.
RefEntries == <<[scan_event |-> 0], [scan_event |-> 1], [scan_event |-> 7]>>

OnceFiles ==
    { EventsFile(0, 4096, ParamsStream(2, <<EvA, EvB>>), RefEntries),
      EventsFile(5000, 4096, ParamsStream(2, <<EvA, EvB>>), RefEntries),
      EventsFile(4094, 4096, ParamsStream(2, <<EvA, EvB>>), RefEntries),
      EventsFile(512, 4096, ParamsStream(0, <<>>), RefEntries),
      EventsFile(512, 4096, ParamsStream(1, <<EvA>>), RefEntries),
      EventsFile(512, 4096, ParamsStream(2, <<EvA, EvB>>), RefEntries),
      EventsFile(512, 4096, ParamsStream(2, <<EvA, EvBad>>), RefEntries),
      EventsFile(512, 4096, ParamsStream(2, <<EvA>>), RefEntries),
      EventsFile(512, 4096, ParamsStream(MAX_SCAN_EVENTS + 1, <<EvA, EvB>>),
                 RefEntries) }

\* parse_scan_events returns Ok(vec![]) without reading anything.
NothingToParse(f) ==
    f.scan_events_addr = 0 \/ f.scan_events_addr >= f.data_len

\* parse_scan_events fails before or at its next record, given the records
\* pushed so far: the count cannot be read, the count is unreasonable, or the
\* next record is missing or malformed.
ParseFailsAt(f, done) ==
    \/ f.scan_events_addr + 4 > f.data_len
    \/ f.params.n_events > MAX_SCAN_EVENTS
    \/ /\ Len(done) < f.params.n_events
       /\ IF Len(done) + 1 > Len(f.params.events)
          THEN TRUE
          ELSE ~f.params.events[Len(done) + 1].ok

ParseComplete(f, done) ==
    /\ f.scan_events_addr + 4 <= f.data_len
    /\ f.params.n_events <= MAX_SCAN_EVENTS
    /\ Len(done) = f.params.n_events

\* The value the initialising closure returns: the parsed list, or the
\* default (empty) list when there is nothing to parse or parsing fails.
RECURSIVE ParseFrom(_, _)
ParseFrom(f, done) ==
    IF ParseFailsAt(f, done) THEN << >>
    ELSE IF ParseComplete(f, done) THEN done
    ELSE ParseFrom(f, Append(done, f.params.events[Len(done) + 1]))

scan_events_closure(f) ==
    IF f.scan_events_addr > 0
    THEN IF NothingToParse(f) THEN << >> ELSE ParseFrom(f, << >>)
    ELSE << >>

\* OnceLock::get: the value, once initialisation has completed.
IsInitialized(o) == o.state = "done"

\* OnceLock::get_or_init runs the closure only when it finds the cell never
\* initialised and nobody initialising it.
CanInitializeRacy(o) == o.state # "done"
CanInitialize(o) == o.state = "uninit"

\* What an access makes of the list it got.
AccessKinds == {[fn |-> "scan_events", entry |-> 0]}
                   \cup {[fn |-> "get_conversion_params", entry |-> e] : e \in 1..3}

get_conversion_params(list, entry) ==
    IF entry.scan_event + 1 <= Len(list)
    THEN list[entry.scan_event + 1].conversion_params
    ELSE << >>

Observation(f, k, list, via) ==
    [kind |-> k, list |-> list, via |-> via,
     out |-> IF k.fn = "scan_events" THEN list
             ELSE get_conversion_params(list, f.scan_index[k.entry])]

NotObserved ==
    [kind |-> [fn |-> "none", entry |-> 0], list |-> << >>, via |-> "none",
     out |-> << >>]

Seen(t) == observed[t].via # "none"

InitOnce ==
    /\ GuiIdle
    /\ file \in OnceFiles
    /\ once = [state |-> "uninit", value |-> << >>, inits |-> 0]
    /\ tpc = [t \in Readers |-> "idle"]
    /\ building = [t \in Readers |-> << >>]
    /\ observed = [t \in Readers |-> NotObserved]
    /\ XicIdle
    /\ OpenIdle
    /\ ReaderIdle
    /\ FnIdle

\* Fast path of get_or_init: the cell is initialised, the access reads it.
GetFast(t, k) ==
    /\ tpc[t] = "idle"
    /\ IsInitialized(once)
    /\ observed' = [observed EXCEPT ![t] = Observation(file, k, once.value, "fast")]
    /\ UNCHANGED <<file, once, tpc, building>>
    /\ UNCHANGED notOnceVars

\* The thread wins the initialisation and starts running the closure.
BeginInit(t) ==
    /\ tpc[t] = "idle"
    /\ CanInitialize(once)
    /\ once' = [once EXCEPT !.state = "running", !.inits = @ + 1]
    /\ tpc' = [tpc EXCEPT ![t] = "init"]
    /\ building' = [building EXCEPT ![t] = << >>]
    /\ UNCHANGED <<file, observed>>
    /\ UNCHANGED notOnceVars

\* Another thread is running the closure: this one blocks until it is done.
Wait(t) ==
    /\ tpc[t] = "idle"
    /\ once.state = "running"
    /\ tpc' = [tpc EXCEPT ![t] = "blocked"]
    /\ UNCHANGED <<file, once, building, observed>>
    /\ UNCHANGED notOnceVars

\* The closure, in parse_scan_events: one more record parsed and pushed.
ParseEvent(t) ==
    /\ tpc[t] = "init"
    /\ file.scan_events_addr > 0
    /\ ~NothingToParse(file)
    /\ ~ParseFailsAt(file, building[t])
    /\ ~ParseComplete(file, building[t])
    /\ building' = [building EXCEPT
                        ![t] = Append(@, file.params.events[Len(@) + 1])]
    /\ UNCHANGED <<file, once, tpc, observed>>
    /\ UNCHANGED notOnceVars

\* The closure: parse_scan_events returns Err, unwrap_or_default gives vec![].
ParseFail(t) ==
    /\ tpc[t] = "init"
    /\ file.scan_events_addr > 0
    /\ ~NothingToParse(file)
    /\ ParseFailsAt(file, building[t])
    /\ building' = [building EXCEPT ![t] = << >>]
    /\ tpc' = [tpc EXCEPT ![t] = "ready"]
    /\ UNCHANGED <<file, once, observed>>
    /\ UNCHANGED notOnceVars

\* The closure returns its list: there was nothing to parse, or every
\* record has been pushed.
ParseDone(t) ==
    /\ tpc[t] = "init"
    /\ \/ file.scan_events_addr = 0
       \/ NothingToParse(file)
       \/ ParseComplete(file, building[t])
    /\ tpc' = [tpc EXCEPT ![t] = "ready"]
    /\ UNCHANGED <<file, once, building, observed>>
    /\ UNCHANGED notOnceVars

\* get_or_init stores the closure's value in the cell and returns it.
Publish(t, k) ==
    /\ tpc[t] = "ready"
    /\ once' = [once EXCEPT !.state = "done", !.value = building[t]]
    /\ observed' = [observed EXCEPT ![t] = Observation(file, k, building[t], "init")]
    /\ tpc' = [tpc EXCEPT ![t] = "idle"]
    /\ UNCHANGED <<file, building>>
    /\ UNCHANGED notOnceVars

\* A blocked thread resumes once the cell is initialised and reads it.
Wake(t, k) ==
    /\ tpc[t] = "blocked"
    /\ IsInitialized(once)
    /\ observed' = [observed EXCEPT ![t] = Observation(file, k, once.value, "wait")]
    /\ tpc' = [tpc EXCEPT ![t] = "idle"]
    /\ UNCHANGED <<file, once, building>>
    /\ UNCHANGED notOnceVars

NextOnce ==
    \/ \E t \in Readers : \E k \in AccessKinds : GetFast(t, k)
    \/ \E t \in Readers : BeginInit(t)
    \/ \E t \in Readers : Wait(t)
    \/ \E t \in Readers : ParseEvent(t)
    \/ \E t \in Readers : ParseFail(t)
    \/ \E t \in Readers : ParseDone(t)
    \/ \E t \in Readers : \E k \in AccessKinds : Publish(t, k)
    \/ \E t \in Readers : \E k \in AccessKinds : Wake(t, k)

SpecOnce == InitOnce /\ [][NextOnce]_vars

\* C3: when several threads access the scan-event templates of one opened
\* file concurrently, the list is populated at most once (the closure runs at
\* most once), and every access on every thread observes the same list, the
\* complete one the closure returns, never a list still being built.
C3_PopulatedOnce ==
    /\ once.inits <= 1
    /\ IsInitialized(once) => once.value = scan_events_closure(file)
    /\ \A t \in Readers : Seen(t) =>
           /\ observed[t].list = scan_events_closure(file)
           /\ \A u \in Readers : Seen(u) => observed[u].list = observed[t].list

\* Two threads raced on the first access of a file with two templates: one
\* built the list and has since read it again, the other waited for it, and
\* both saw both templates.
C3_Witness ==
    \E t \in Readers : \E u \in Readers \ {t} :
        /\ observed[t].via = "fast" /\ Len(observed[t].list) = 2
        /\ observed[u].via = "wait" /\ Len(observed[u].list) = 2
        /\ once.inits = 1

-----------------------------------------------------------------------------
\* open(): RawFile::from_data on a file image, stage by stage, then scan(n)
\* on the handle it returned.

\* u32 values are pairs <<high 16 bits, low 16 bits>>, so that values up to
\* u32::MAX and the wrap-around of u32 arithmetic are represented exactly.
LIMB == 2 ^ 16

U32Of(n) == <<n \div LIMB, n % LIMB>>
U32Max == <<LIMB - 1, LIMB - 1>>
U32Lt(a, b) == a[1] < b[1] \/ (a[1] = b[1] /\ a[2] < b[2])
U32Le(a, b) == ~U32Lt(b, a)

\* a - b for a >= b.
U32Sub(a, b) ==
    IF a[2] >= b[2] THEN <<a[1] - b[1], a[2] - b[2]>>
    ELSE <<a[1] - b[1] - 1, a[2] + LIMB - b[2]>>

\* a + 1 in wrapping arithmetic.
U32WrappingInc(a) ==
    IF a[2] < LIMB - 1 THEN <<a[1], a[2] + 1>>
    ELSE IF a[1] < LIMB - 1 THEN <<a[1] + 1, 0>>
    ELSE U32Zero

None == [some |-> FALSE]
Some(v) == [some |-> TRUE, v |-> v]

\* u32::checked_sub
checked_sub(a, b) == IF U32Lt(a, b) THEN None ELSE Some(U32Sub(a, b))

\* `as usize`, for the values that occur as lengths and positions.
AsUsize(a) == a[1] * LIMB + a[2]

\* u32::from_le_bytes
U32FromLeBytes(b0, b1, b2, b3) == <<b2 + 256 * b3, b0 + 256 * b1>>
U32ToLeBytes(a) == <<a[2] % 256, a[2] \div 256, a[1] % 256, a[1] \div 256>>

\* ---- the first bytes of the image and the Finnigan magic ----

\* data[i]: the image lists the bytes that are not zero.
Byte(d, i) == IF i \in DOMAIN d.patch THEN d.patch[i] ELSE 0

\* 0xA101u16.to_le_bytes()
MAGIC_LE == <<1, 161>>
SEARCH_WINDOW == 65536
VERSION_OFFSET == 36
MAX_PLAUSIBLE_VERSION == 200

Min2(a, b) == IF a <= b THEN a ELSE b
saturating_sub(a, b) == IF a >= b THEN a - b ELSE 0
SetMin(S) == CHOOSE x \in S : \A y \in S : x <= y

\* A variant of the loop body that does not look at the version value.
MagicAtAnyVersion(d, i) ==
    /\ Byte(d, i) = MAGIC_LE[1]
    /\ Byte(d, i + 1) = MAGIC_LE[2]
    /\ i + VERSION_OFFSET + 4 <= d.len
\* The body of the search loop at position i: the tag matches, the version
\* field lies inside the data and holds a plausible version.
MagicAt(d, i) ==
    /\ Byte(d, i) = MAGIC_LE[1]
    /\ Byte(d, i + 1) = MAGIC_LE[2]
    /\ i + VERSION_OFFSET + 4 <= d.len
    /\ LET v == U32FromLeBytes(Byte(d, i + VERSION_OFFSET),
                               Byte(d, i + VERSION_OFFSET + 1),
                               Byte(d, i + VERSION_OFFSET + 2),
                               Byte(d, i + VERSION_OFFSET + 3))
       IN  U32Lt(U32Zero, v) /\ U32Le(v, U32Of(MAX_PLAUSIBLE_VERSION))

\* The loop runs i over 0..search_limit-2 and returns at the first hit.
find_finnigan_magic(d) ==
    LET search_limit == Min2(d.len, SEARCH_WINDOW)
        hits == {i \in 0..(saturating_sub(search_limit, 1) - 1) : MagicAt(d, i)}
    IN  IF hits = {} THEN None ELSE Some(SetMin(hits))

\* ---- errors ----
NotRawFile == [variant |-> "NotRawFile"]
UnsupportedVersion(v) == [variant |-> "UnsupportedVersion", version |-> v]
StreamNotFound(text) == [variant |-> "StreamNotFound", text |-> text]
ScanOutOfRange(n) == [variant |-> "ScanOutOfRange", n |-> n]
ScanDecodeError(offset) == [variant |-> "ScanDecodeError", offset |-> offset]
EndOfData == [variant |-> "Io", text |-> "unexpected end of data"]
CorruptedData(msg) == [variant |-> "CorruptedData", msg |-> msg]

\* A variant that formats the inner error only.
parse_error_bare(component, offset, version, error) ==
    CorruptedData([component |-> "", text |-> "", offset |-> 0,
                   version_str |-> << >>, error |-> error])
\* "{component} parsing failed at offset {offset}{version_str}: {error}",
\* version_str being " (v{N})" or empty.
parse_error(component, offset, version, error) ==
    CorruptedData([component |-> component,
                   text |-> "parsing failed at offset",
                   offset |-> offset,
                   version_str |-> IF version.some THEN <<"v", version.v>> ELSE << >>,
                   error |-> error])

Ok(v) == [ok |-> TRUE, v |-> v]
Err(e) == [ok |-> FALSE, e |-> e]

\* ---- FileHeader ----
FILE_HEADER_SIZE == 2 + 18 + 16 + 4 + 112 + 112 + 4 + 60 + 2056
FINNIGAN_MAGIC == MAGIC_LE[1] + 256 * MAGIC_LE[2]

\* FileHeader::parse on data[offset..]: the magic, then reads up to the end
\* of the header; the version is the u32 at +36.
FileHeader_parse(d, offset) ==
    IF offset + 2 > d.len THEN Err(EndOfData)
    ELSE IF Byte(d, offset) + 256 * Byte(d, offset + 1) # FINNIGAN_MAGIC
         THEN Err(NotRawFile)
    ELSE IF offset + FILE_HEADER_SIZE > d.len THEN Err(EndOfData)
    ELSE Ok([version |-> U32FromLeBytes(Byte(d, offset + VERSION_OFFSET),
                                        Byte(d, offset + VERSION_OFFSET + 1),
                                        Byte(d, offset + VERSION_OFFSET + 2),
                                        Byte(d, offset + VERSION_OFFSET + 3))])

MIN_SUPPORTED_VERSION == 57
MAX_SUPPORTED_VERSION == 66
\* A variant that checks the upper end of the range only.
is_supported_upper(v) ==
    U32Le(v, U32Of(MAX_SUPPORTED_VERSION))
\* (MIN_SUPPORTED_VERSION..=MAX_SUPPORTED_VERSION).contains(&version)
is_supported(v) ==
    U32Le(U32Of(MIN_SUPPORTED_VERSION), v) /\ U32Le(v, U32Of(MAX_SUPPORTED_VERSION))

\* ---- RawFileInfo ----
N_VCI == 64
MAX_CONTROLLERS == 16
MIN_CONTROLLER_OFFSET == 4096

Ctl(type, index, offset) ==
    [device_type |-> type, device_index |-> index, offset |-> offset]
ZeroCtl == Ctl(0, 0, 0)

\* The 64 controller entries RawFileInfo::parse reads: those given, then
\* zero entries.
Controllers(prefix) ==
    [i \in 1..N_VCI |-> IF i <= Len(prefix) THEN prefix[i] ELSE ZeroCtl]

Date(y, mo, dd, h, mi, s) ==
    [year |-> y, month |-> mo, day |-> dd, hour |-> h, minute |-> mi, second |-> s]

Info(date, n, prefix) ==
    [date |-> date, n_controllers |-> n, controllers |-> Controllers(prefix)]

has_valid_date(info) ==
    /\ info.date.year >= 2000 /\ info.date.year <= 2100
    /\ info.date.month >= 1 /\ info.date.month <= 12
    /\ info.date.day >= 1 /\ info.date.day <= 31
    /\ info.date.hour <= 23
    /\ info.date.minute <= 59
    /\ info.date.second <= 59

is_zero_controller(c) ==
    c.device_type = 0 /\ c.device_index = 0 /\ c.offset = 0

is_valid_controller(c, file_size) ==
    /\ c.device_type >= 0 /\ c.device_type <= 5
    /\ c.offset > MIN_CONTROLLER_OFFSET
    /\ c.offset < file_size

is_valid_controller_strict(c, file_size) ==
    /\ c.device_type >= 0 /\ c.device_type <= 5
    /\ c.device_index >= 0 /\ c.device_index <= 7
    /\ c.offset > MIN_CONTROLLER_OFFSET
    /\ c.offset < file_size

has_valid_controllers_strict(info, file_size) ==
    LET n == info.n_controllers
        cs == info.controllers
    IN  IF n > MAX_CONTROLLERS \/ ~has_valid_date(info) THEN FALSE
        ELSE IF n > Len(cs) THEN FALSE
        ELSE IF n = 0
             THEN \A i \in 1..Min2(16, Len(cs)) : is_zero_controller(cs[i])
        ELSE /\ \A i \in 1..n : is_valid_controller(cs[i], file_size)
             /\ \A i \in (n + 1)..Min2(n + 4, Len(cs)) : is_zero_controller(cs[i])

has_valid_controllers_vci_only(info, file_size) ==
    LET cs == info.controllers
        valid == {i \in 1..Len(cs) : ~is_zero_controller(cs[i])
                                     /\ is_valid_controller_strict(cs[i], file_size)}
        garbage == {i \in 1..Len(cs) : ~is_zero_controller(cs[i])
                                       /\ ~is_valid_controller_strict(cs[i], file_size)}
    IN  garbage = {} /\ Cardinality(valid) >= 1

has_valid_controllers(info, file_size) ==
    IF info.n_controllers > MAX_CONTROLLERS THEN FALSE
    ELSE IF has_valid_controllers_strict(info, file_size) THEN TRUE
    ELSE has_valid_controllers_vci_only(info, file_size)

\* The first MS controller (device_type 0) with a non-zero offset, else the
\* first controller with a non-zero offset, else 0.
run_header_addr(info) ==
    LET cs == info.controllers
        ms == {i \in 1..Len(cs) : cs[i].device_type = 0 /\ cs[i].offset > 0}
        any == {i \in 1..Len(cs) : cs[i].offset > 0}
    IN  IF ms # {} THEN cs[SetMin(ms)].offset
        ELSE IF any # {} THEN cs[SetMin(any)].offset
        ELSE 0

\* ---- RunHeader ----
\* RunHeader::parse at an address: what the image holds there, or an error
\* where it holds no parseable RunHeader.
RunHeader_parse(d, addr) ==
    IF addr \in DOMAIN d.run_header_at
    THEN Ok(d.run_header_at[addr])
    ELSE Err(IF addr >= d.len THEN EndOfData
             ELSE CorruptedData([text |-> "RunHeader: could not locate 64-bit address block"]))

\* Outcome of RunHeader::n_scans.  last - first + 1 overflows u32 when
\* first = 0 and last = u32::MAX: with overflow checks (debug profile) the
\* addition panics, without them (release profile) it wraps to 0.
n_scans_of(rh, profile) ==
    IF U32Le(rh.first_scan, rh.last_scan)
    THEN LET diff == U32Sub(rh.last_scan, rh.first_scan)
         IN  IF diff = U32Max /\ profile = "debug"
             THEN [panic |-> TRUE, v |-> U32Zero]
             ELSE [panic |-> FALSE, v |-> U32WrappingInc(diff)]
    ELSE [panic |-> FALSE, v |-> U32Zero]

\* ---- RawFileInfo lookup ----
\* find_raw_file_info_sequential: skip SequenceRow and AutoSamplerConfig,
\* parse RawFileInfo where the cursor lands, accept it if its controllers
\* validate.
find_raw_file_info_sequential(d) ==
    IF ~d.sequential.ok THEN Err(EndOfData)
    ELSE IF has_valid_controllers(d.sequential.info, d.len)
         THEN Ok(d.sequential.info)
    ELSE Err(CorruptedData([text |-> "Sequential reading: RawFileInfo has no valid controllers",
                            offset |-> d.sequential.offset]))

\* find_raw_file_info: the forward scan in 2-byte steps; d.scanned lists, in
\* scan order, the RawFileInfo values that parse at a scanned offset.
ScanAccepts(d, info) ==
    /\ has_valid_controllers(info, d.len)
    /\ run_header_addr(info) > 0
    /\ RunHeader_parse(d, run_header_addr(info)).ok

find_raw_file_info(d) ==
    LET hits == {i \in 1..Len(d.scanned) : ScanAccepts(d, d.scanned[i])}
    IN  IF hits # {} THEN Ok(d.scanned[SetMin(hits)])
        ELSE Err(StreamNotFound("RawFileInfo: no valid VCI controllers found within search range"))

\* ---- scan index ----
\* A variant that returns every entry present, whatever n_scans says.
parse_scan_index_all(d, addr, n) ==
    LET present == IF addr = d.index_addr THEN d.index_entries ELSE << >>
    IN  IF U32Le(n, U32Of(Len(present)))
        THEN Ok(present)
        ELSE Err(EndOfData)
\* parse_scan_index reads n_scans entries at the address; reading past the
\* entries the image holds there fails.
parse_scan_index(d, addr, n) ==
    LET present == IF addr = d.index_addr THEN d.index_entries ELSE << >>
    IN  IF U32Le(n, U32Of(Len(present)))
        THEN Ok(SubSeq(present, 1, AsUsize(n)))
        ELSE Err(EndOfData)

\* ---- scan(n) on an opened file ----
\* The Scan that every arm of decode_scan builds: the scalars are copied from
\* the index entry, the level and polarity are placeholders until enrichment.
ScanOf(scan_number, entry, peaks) ==
    [scan_number |-> scan_number, rt |-> entry.rt,
     ms_level |-> "Ms1", polarity |-> "Unknown",
     tic |-> entry.tic, base_peak_mz |-> entry.base_peak_mz,
     base_peak_intensity |-> entry.base_peak_intensity,
     centroid_mz |-> [i \in DOMAIN peaks |-> peaks[i].mz],
     centroid_intensity |-> [i \in DOMAIN peaks |-> peaks[i].int],
     precursor |-> None, filter_string |-> None]

\* decode_ftlt_scan propagates an error of the header or of the segment
\* ranges and swallows an error of the centroid section into empty centroids.
decode_scan_ftlt(h, abs_offset, entry, scan_number) ==
    IF entry.packet = "bad_header" THEN Err(ScanDecodeError(abs_offset))
    ELSE IF entry.packet = "bad_peaks" THEN Ok(ScanOf(scan_number, entry, << >>))
    ELSE Ok(ScanOf(scan_number, entry, entry.peaks))

\* The legacy decoder propagates a header error and swallows a peak-list
\* error into empty centroids.
decode_scan_legacy(h, abs_offset, entry, scan_number) ==
    IF entry.packet = "bad_header" THEN Err(ScanDecodeError(abs_offset))
    ELSE IF entry.packet = "bad_peaks" THEN Ok(ScanOf(scan_number, entry, << >>))
    ELSE Ok(ScanOf(scan_number, entry, entry.peaks))

\* A variant of decode_scan that tests for the empty scan before the bounds.
decode_scan_empty_first(h, entry, scan_number) ==
    LET abs_offset == h.data_addr + entry.offset
        id == PacketTypeId(entry)
    IN  IF entry.number_packets = 0 /\ entry.data_size = 0
        THEN Ok(ScanOf(scan_number, entry, << >>))
        ELSE IF entry.data_size > 0 /\ abs_offset + entry.data_size > h.data_len
        THEN Err(ScanDecodeError(abs_offset))
        ELSE IF entry.data_size = 0 /\ abs_offset >= h.data_len
        THEN Err(ScanDecodeError(abs_offset))
        ELSE IF IsFtlt(id) THEN decode_scan_ftlt(h, abs_offset, entry, scan_number)
        ELSE IF IsLegacy(id) THEN decode_scan_legacy(h, abs_offset, entry, scan_number)
        ELSE Ok(ScanOf(scan_number, entry, << >>))
\* decode_scan: the bounds checks on the packet, then the empty scan, then
\* the dispatch on the low word of the packet type.
decode_scan(h, entry, scan_number) ==
    LET abs_offset == h.data_addr + entry.offset
        id == PacketTypeId(entry)
    IN  IF entry.data_size > 0 /\ abs_offset + entry.data_size > h.data_len
        THEN Err(ScanDecodeError(abs_offset))
        ELSE IF entry.data_size = 0 /\ abs_offset >= h.data_len
        THEN Err(ScanDecodeError(abs_offset))
        ELSE IF entry.number_packets = 0 /\ entry.data_size = 0
        THEN Ok(ScanOf(scan_number, entry, << >>))
        ELSE IF IsFtlt(id) THEN decode_scan_ftlt(h, abs_offset, entry, scan_number)
        ELSE IF IsLegacy(id) THEN decode_scan_legacy(h, abs_offset, entry, scan_number)
        ELSE Ok(ScanOf(scan_number, entry, << >>))

\* ---- enrich_scan ----
\* str::to_lowercase on the letters that occur in the filter texts explored.
LowerOf(c) ==
    CASE c = "F" -> "f" [] c = "T" -> "t" [] c = "M" -> "m" [] c = "S" -> "s"
      [] c = "I" -> "i" [] OTHER -> c
to_lowercase(s) == [k \in 1..Len(s) |-> LowerOf(s[k])]

DigitChars == {"0", "1", "2", "3", "4", "5", "6", "7", "8", "9"}
DigitVal(c) ==
    CASE c = "0" -> 0 [] c = "1" -> 1 [] c = "2" -> 2 [] c = "3" -> 3
      [] c = "4" -> 4 [] c = "5" -> 5 [] c = "6" -> 6 [] c = "7" -> 7
      [] c = "8" -> 8 [] c = "9" -> 9
RECURSIVE ParseDigits(_)
ParseDigits(s) ==
    IF s = << >> THEN 0
    ELSE 10 * ParseDigits(SubSeq(s, 1, Len(s) - 1)) + DigitVal(s[Len(s)])
\* The largest position of character c in s, 0 when it does not occur.
RFind(s, c) ==
    IF \E k \in 1..Len(s) : s[k] = c
    THEN CHOOSE k \in 1..Len(s) : s[k] = c /\ \A j \in (k + 1)..Len(s) : s[j] # c
    ELSE 0

\* parse_precursor_from_filter: the number before the last '@' and the
\* letters after it (no decimal point or collision energy in the texts
\* explored).
parse_precursor_from_filter(filter) ==
    LET at == RFind(filter, "@")
        before == SubSeq(filter, 1, at - 1)
        nondigit == {k \in 1..Len(before) : before[k] \notin DigitChars}
        mz_start == IF nondigit = {} THEN 1
                    ELSE (CHOOSE k \in nondigit : \A j \in nondigit : j <= k) + 1
        mz_str == SubSeq(before, mz_start, Len(before))
        after == SubSeq(filter, at + 1, Len(filter))
    IN  IF at = 0 THEN None
        ELSE IF mz_str = << >> THEN None
        ELSE Some([mz |-> ParseDigits(mz_str), activation |-> to_lowercase(after),
                   collision_energy |-> 0])

\* scan_filter::parse_filter: polarity and MS level by substring tests.
parse_filter(filter) ==
    LET lower == to_lowercase(filter)
        polarity == IF Contains(filter, <<" ", "+", " ">>) THEN "Positive"
                    ELSE IF Contains(filter, <<" ", "-", " ">>) THEN "Negative"
                    ELSE "Unknown"
        ms_level == IF Contains(lower, <<"m", "s", "3">>)
                        \/ Contains(lower, <<"m", "s", " ", "3">>) THEN "Ms3"
                    ELSE IF Contains(lower, <<"m", "s", "2">>)
                        \/ Contains(lower, <<"m", "s", " ", "2">>) THEN "Ms2"
                    ELSE "Ms1"
    IN  [ms_level |-> ms_level, polarity |-> polarity,
         precursor |-> IF ms_level \in {"Ms2", "Ms3"}
                       THEN parse_precursor_from_filter(filter) ELSE None]

PrecursorInfo(mz, charge, isolation_width, activation_type, collision_energy) ==
    [mz |-> mz, charge |-> charge, isolation_width |-> isolation_width,
     activation_type |-> activation_type, collision_energy |-> collision_energy]

\* A trailer field is readable when the layout has it and the read succeeds;
\* Option::filter keeps the value when the test passes.
Keep(field, test) == IF field.ok /\ test THEN Some(field.val) ELSE None

build_precursor_info_from_trailer(rec) ==
    LET mono_mz == Keep(rec.mono_mz, rec.mono_mz.val > 0)
        charge == Keep(rec.charge, rec.charge.val # 0)
        isolation_width == Keep(rec.isolation_width,
                                rec.isolation_width.val > 0
                                    /\ rec.isolation_width.val < 100)
    IN  IF ~mono_mz.some THEN None
        ELSE Some(PrecursorInfo(mono_mz.v, charge, isolation_width, None, None))

build_precursor_info(rec, filter) ==
    LET fp == filter.precursor
        mono_mz == Keep(rec.mono_mz, rec.mono_mz.val > 0)
        charge == Keep(rec.charge, rec.charge.val # 0)
        isolation_width == Keep(rec.isolation_width, rec.isolation_width.val > 0)
    IN  IF ~mono_mz.some /\ ~fp.some THEN None
        ELSE Some(PrecursorInfo(IF mono_mz.some THEN mono_mz.v ELSE fp.v.mz,
                                charge, isolation_width,
                                IF fp.some THEN Some(fp.v.activation) ELSE None,
                                IF fp.some THEN Some(fp.v.collision_energy) ELSE None))

\* enrich_from_scan_event: the preamble of the entry's scan event, when the
\* event exists; the precursor of an MSn scan from its last reaction.
enrich_from_scan_event(f, sc, i) ==
    LET entry == f.scan_index[i]
    IN  IF entry.scan_event + 1 > Len(f.scan_events) THEN sc
        ELSE LET event == f.scan_events[entry.scan_event + 1]
                 s1 == [sc EXCEPT !.ms_level = event.preamble.ms_level,
                                    !.polarity = event.preamble.polarity]
             IN  IF s1.ms_level # "Ms1" /\ event.reactions # << >>
                 THEN LET reaction == event.reactions[Len(event.reactions)]
                      IN  [s1 EXCEPT !.precursor =
                              Some(PrecursorInfo(reaction.precursor_mz, None,
                                   IF reaction.isolation_width > 0
                                   THEN Some(reaction.isolation_width) ELSE None,
                                   Some(reaction.activation),
                                   Some(reaction.collision_energy)))]
                 ELSE s1

FilterTextOf(f, i) ==
    LET layout == f.trailer_layout
        rec == f.scan_index[i].trailer
    IN  IF layout.present /\ layout.filter_text_idx /\ rec.filter.ok
        THEN Some(rec.filter.str) ELSE None
MasterOf(f, i) ==
    LET layout == f.trailer_layout
        rec == f.scan_index[i].trailer
    IN  IF layout.present /\ layout.master_scan_idx /\ rec.master.ok
        THEN Some(rec.master.val) ELSE None

\* A variant of enrich_scan in which only a positive Master Scan Number
\* settles the scan; any other value falls through to the scan event.
enrich_scan_fallthrough(f, sc, i) ==
    LET rec == f.scan_index[i].trailer
        text == FilterTextOf(f, i)
        master == MasterOf(f, i)
    IN  IF text.some /\ text.v # << >>
        THEN LET filter == parse_filter(text.v)
                 s1 == [sc EXCEPT !.ms_level = filter.ms_level,
                                    !.polarity = filter.polarity,
                                    !.filter_string = Some(text.v)]
             IN  IF s1.ms_level # "Ms1"
                 THEN [s1 EXCEPT !.precursor = build_precursor_info(rec, filter)]
                 ELSE s1
        ELSE IF master.some /\ master.v > 0
        THEN [sc EXCEPT !.ms_level = "Ms2",
                          !.precursor = build_precursor_info_from_trailer(rec)]
        ELSE enrich_from_scan_event(f, sc, i)
\* enrich_scan: filter text, then Master Scan Number, then the scan event.
\* A readable Master Scan Number ends the search whatever its value.
enrich_scan(f, sc, i) ==
    LET rec == f.scan_index[i].trailer
        text == FilterTextOf(f, i)
        master == MasterOf(f, i)
    IN  IF text.some /\ text.v # << >>
        THEN LET filter == parse_filter(text.v)
                 s1 == [sc EXCEPT !.ms_level = filter.ms_level,
                                    !.polarity = filter.polarity,
                                    !.filter_string = Some(text.v)]
             IN  IF s1.ms_level # "Ms1"
                 THEN [s1 EXCEPT !.precursor = build_precursor_info(rec, filter)]
                 ELSE s1
        ELSE IF master.some
        THEN IF master.v > 0
             THEN [sc EXCEPT !.ms_level = "Ms2",
                               !.precursor = build_precursor_info_from_trailer(rec)]
             ELSE sc
        ELSE enrich_from_scan_event(f, sc, i)

\* Vec::get on the scan index (0-based idx, a u32 widened to usize).
scan_index_get(h, idx) ==
    IF U32Lt(idx, U32Of(Len(h.scan_index)))
    THEN Some(h.scan_index[AsUsize(idx) + 1])
    ELSE None

scan(h, scan_number) ==
    LET idx == checked_sub(scan_number, h.run_header.first_scan)
    IN  IF ~idx.some THEN Err(ScanOutOfRange(scan_number))
        ELSE LET entry == scan_index_get(h, idx.v)
             IN  IF ~entry.some THEN Err(ScanOutOfRange(scan_number))
                 ELSE LET decoded == decode_scan(h, entry.v, scan_number)
                      IN  IF decoded.ok
                          THEN Ok(enrich_scan(h, decoded.v, AsUsize(idx.v) + 1))
                          ELSE decoded

\* ---- file images ----
ScanIndexEntry(offset, data_size, number_packets, packet_type, packet, sc) ==
    [offset |-> offset, data_size |-> data_size,
     number_packets |-> number_packets, packet_type |-> packet_type,
     rt |-> sc.rt, tic |-> sc.tic, base_peak_mz |-> sc.base_peak_mz,
     base_peak_intensity |-> sc.base_peak_intensity,
     packet |-> packet,
     peaks |-> [i \in 1..number_packets |-> [mz |-> 100 * i, int |-> 10 * i]],
     trailer |-> TrailerMs1, scan_event |-> 0]
Scalars(rt, tic, base_peak_mz, base_peak_intensity) ==
    [rt |-> rt, tic |-> tic, base_peak_mz |-> base_peak_mz,
     base_peak_intensity |-> base_peak_intensity]
\* An FT centroid entry (packet type 21) whose packet either decodes or not.
IndexEntry(offset, data_size, number_packets, decodes) ==
    ScanIndexEntry(offset, data_size, number_packets, 21,
                   IF decodes THEN "ok" ELSE "bad_header",
                   Scalars(1, 700, 445, 90))
IE_ok      == IndexEntry(0, 10, 1, TRUE)
IE_empty   == IndexEntry(16, 0, 0, TRUE)
IE_corrupt == IndexEntry(32, 10, 1, FALSE)
IE_beyond  == IndexEntry(100000, 10, 1, TRUE)

Rh(first, last) ==
    [first_scan |-> first, last_scan |-> last, scan_index_addr |-> 6000,
     data_addr |-> 8000, scan_trailer_addr |-> 7000, scan_params_addr |-> 7500]

\* The bytes of a FileHeader start at offset o: tag and version.
HeaderBytes(o, v) ==
    LET b == U32ToLeBytes(v)
        all == [i \in {o, o + 1} \cup ((o + VERSION_OFFSET)..(o + VERSION_OFFSET + 3)) |->
                   IF i = o THEN MAGIC_LE[1]
                   ELSE IF i = o + 1 THEN MAGIC_LE[2]
                   ELSE b[i - o - VERSION_OFFSET + 1]]
    IN  [i \in {j \in DOMAIN all : all[j] # 0} |-> all[i]]

GoodDate == Date(2021, 6, 15, 12, 30, 0)
ZeroDate == Date(0, 0, 0, 0, 0, 0)
RH_ADDR == 5000
InfoGood == Info(GoodDate, 1, <<Ctl(0, 0, RH_ADDR)>>)

SeqOk(info) == [ok |-> TRUE, offset |-> 3000, info |-> info]
SeqFails == [ok |-> FALSE, offset |-> 3000, info |-> InfoGood]

BaseImage ==
    [len |-> 20000,
     patch |-> HeaderBytes(0, U32Of(66)),
     sequential |-> SeqOk(InfoGood),
     scanned |-> <<InfoGood>>,
     run_header_at |-> [a \in {RH_ADDR} |-> Rh(U32Of(1), U32Of(3))],
     index_addr |-> 6000,
     index_entries |-> <<IE_ok, IE_empty, IE_corrupt>>,
     gdh_before_spect |-> TRUE,
     gdh_pos |-> 5600,
     gdh_legacy |-> FALSE]

WithHeader(len, patch) == [BaseImage EXCEPT !.len = len, !.patch = patch]
WithScans(first, last) ==
    [BaseImage EXCEPT !.run_header_at = [a \in {RH_ADDR} |-> Rh(first, last)]]
WithInfo(info) ==
    [BaseImage EXCEPT !.sequential = SeqOk(info), !.scanned = <<info>>]

\* Images differing in their first bytes (the rest as in BaseImage).
ByteImages ==
    { WithHeader(0, << >>),
      WithHeader(1, HeaderBytes(0, U32Of(66))),
      WithHeader(39, HeaderBytes(0, U32Of(66))),
      WithHeader(40, HeaderBytes(0, U32Of(66))),
      WithHeader(40, HeaderBytes(0, U32Of(50))),
      WithHeader(20000, << >>),
      WithHeader(20000, HeaderBytes(0, U32Zero)),
      WithHeader(20000, HeaderBytes(0, U32Of(MAX_PLAUSIBLE_VERSION))),
      WithHeader(20000, HeaderBytes(0, U32Of(MAX_PLAUSIBLE_VERSION + 1))),
      WithHeader(20000, HeaderBytes(0, <<1, 66>>)),
      WithHeader(20000, HeaderBytes(0, U32Of(MIN_SUPPORTED_VERSION))),
      WithHeader(20000, HeaderBytes(0, U32Of(MIN_SUPPORTED_VERSION - 1))),
      WithHeader(20000, HeaderBytes(0, U32Of(MAX_SUPPORTED_VERSION + 1))),
      WithHeader(20000, HeaderBytes(101, U32Of(66))),
      WithHeader(20000, HeaderBytes(4, U32Zero) @@ HeaderBytes(101, U32Of(64))),
      WithHeader(20000, HeaderBytes(10, U32Of(60)) @@ HeaderBytes(200, U32Of(66))),
      WithHeader(20000, [i \in {0, 1} |-> MAGIC_LE[2 - i]] @@ (36 :> 66)),
      WithHeader(70000, HeaderBytes(SEARCH_WINDOW - 2, U32Of(66))),
      WithHeader(70000, HeaderBytes(SEARCH_WINDOW - 1, U32Of(66))),
      WithHeader(70000, HeaderBytes(SEARCH_WINDOW, U32Of(66))),
      WithHeader(SEARCH_WINDOW + 37, HeaderBytes(SEARCH_WINDOW - 2, U32Of(66))),
      WithHeader(SEARCH_WINDOW + 38, HeaderBytes(SEARCH_WINDOW - 2, U32Of(66))),
      WithHeader(SEARCH_WINDOW, HeaderBytes(SEARCH_WINDOW - 40, U32Of(66))) }

\* Images differing in their scan range and scan index.
ScanImages ==
    { WithScans(U32Of(1), U32Of(3)),
      WithScans(U32Of(3), U32Of(4)),
      WithScans(U32Of(1), U32Of(0)),
      WithScans(U32Of(5), U32Of(2)),
      WithScans(U32Of(1), U32Of(5)),
      WithScans(U32Max, U32Max),
      WithScans(<<1, 0>>, <<1, 1>>),
      WithScans(U32Zero, U32Max),
      [WithScans(U32Of(1), U32Of(2)) EXCEPT !.index_entries = <<IE_ok, IE_beyond>>],
      [WithScans(U32Of(1), U32Of(2)) EXCEPT !.index_addr = 6400],
      [WithScans(U32Of(1), U32Of(2)) EXCEPT !.gdh_before_spect = FALSE],
      [WithScans(U32Of(1), U32Of(2)) EXCEPT !.gdh_pos = 5601],
      [WithScans(U32Of(1), U32Of(0)) EXCEPT
           !.run_header_at = [a \in {RH_ADDR} |->
               [Rh(U32Of(1), U32Of(0)) EXCEPT !.scan_index_addr = 30000]]],
      [WithScans(U32Of(1), U32Of(0)) EXCEPT
           !.run_header_at = [a \in {RH_ADDR} |->
               [Rh(U32Of(1), U32Of(0)) EXCEPT !.scan_index_addr = 20001]],
           !.gdh_before_spect = FALSE],
      [WithScans(U32Of(1), U32Of(0)) EXCEPT
           !.run_header_at = [a \in {RH_ADDR} |->
               [Rh(U32Of(1), U32Of(0)) EXCEPT !.scan_index_addr = 30000,
                                              !.scan_params_addr = 0]]],
      [WithScans(U32Of(1), U32Of(2)) EXCEPT !.gdh_before_spect = FALSE,
                                             !.gdh_legacy = TRUE] }

\* Images differing in RawFileInfo and RunHeader.
InfoImages ==
    { WithInfo(Info(GoodDate, 0, << >>)),
      WithInfo(Info(GoodDate, 1, <<ZeroCtl>>)),
      WithInfo(Info(ZeroDate, 0, << >>)),
      WithInfo(Info(GoodDate, 0, <<Ctl(3, 0, 0)>>)),
      WithInfo(Info(GoodDate, MAX_CONTROLLERS + 1, <<Ctl(0, 0, RH_ADDR)>>)),
      WithInfo(Info(GoodDate, 2, <<Ctl(3, 0, 9000), Ctl(0, 0, RH_ADDR)>>)),
      WithInfo(Info(GoodDate, 1, <<Ctl(3, 0, RH_ADDR)>>)),
      WithInfo(Info(ZeroDate, 0, <<Ctl(0, 0, RH_ADDR)>>)),
      WithInfo(Info(GoodDate, 1, <<Ctl(0, 0, RH_ADDR), Ctl(9, 9, 9)>>)),
      WithInfo(Info(GoodDate, 1, <<Ctl(0, 0, 30000)>>)),
      WithInfo(Info(GoodDate, 1, <<Ctl(0, 0, 9000)>>)),
      [BaseImage EXCEPT !.sequential = SeqFails],
      [BaseImage EXCEPT !.sequential = SeqFails, !.scanned = << >>],
      [BaseImage EXCEPT !.sequential = SeqFails,
                        !.scanned = <<Info(GoodDate, 1, <<Ctl(0, 0, 9000)>>), InfoGood>>],
      [BaseImage EXCEPT !.sequential = SeqOk(Info(GoodDate, 1, <<ZeroCtl>>)),
                        !.scanned = <<Info(GoodDate, 1, <<ZeroCtl>>), InfoGood>>] }

Images == ByteImages \cup ScanImages \cup InfoImages

BuildProfiles == {"debug", "release"}

\* Scan numbers asked of an opened file.
ScanNumbers ==
    {U32Zero, U32Of(1), U32Of(2), U32Of(3), U32Of(4), U32Of(5), U32Of(6),
     <<1, 0>>, <<1, 1>>, <<1, 2>>, U32Max}

InitOpen ==
    /\ GuiIdle
    /\ data \in Images
    /\ build \in BuildProfiles
    /\ opc = "locate"
    /\ finnigan_offset = 0
    /\ ver = U32Zero
    /\ raw_file_info = << >>
    /\ run_header = << >>
    /\ n_scans = U32Zero
    /\ result = [tag |-> "none", at |-> "none"]
    /\ scanres = [tag |-> "none"]
    /\ file = << >>
    /\ XicIdle
    /\ OnceIdle
    /\ ReaderIdle
    /\ FnIdle

\* from_data returns Err(e); `at` notes the stage it returned from.
Fail(e) ==
    /\ result' = [tag |-> "err", at |-> opc, error |-> e]
    /\ opc' = "done"

\* find_finnigan_magic(&data).ok_or(NotRawFile)?
Locate ==
    /\ opc = "locate"
    /\ LET m == find_finnigan_magic(data)
       IN  IF m.some
           THEN /\ finnigan_offset' = m.v
                /\ opc' = "header"
                /\ UNCHANGED result
           ELSE /\ Fail(NotRawFile)
                /\ UNCHANGED finnigan_offset
    /\ UNCHANGED <<data, build, ver, raw_file_info, run_header, n_scans, scanres>>
    /\ UNCHANGED notOpenVars

\* FileHeader::parse(&data[finnigan_offset..]), errors wrapped by parse_error.
ParseFileHeader ==
    /\ opc = "header"
    /\ LET r == FileHeader_parse(data, finnigan_offset)
       IN  IF r.ok
           THEN /\ ver' = r.v.version
                /\ opc' = "version"
                /\ UNCHANGED result
           ELSE /\ Fail(parse_error("FileHeader", finnigan_offset, None, r.e))
                /\ UNCHANGED ver
    /\ UNCHANGED <<data, build, finnigan_offset, raw_file_info, run_header, n_scans,
                   scanres>>
    /\ UNCHANGED notOpenVars

\* if !version::is_supported(ver) { return Err(UnsupportedVersion(ver)) }
CheckVersion ==
    /\ opc = "version"
    /\ IF is_supported(ver)
       THEN opc' = "info" /\ UNCHANGED result
       ELSE Fail(UnsupportedVersion(ver))
    /\ UNCHANGED <<data, build, finnigan_offset, ver, raw_file_info, run_header,
                   n_scans, scanres>>
    /\ UNCHANGED notOpenVars

\* find_raw_file_info_sequential(..).or_else(|_| find_raw_file_info(..))
\*     .map_err(|e| parse_error("RawFileInfo", info_base, Some(ver), e))?
FindRawFileInfo ==
    /\ opc = "info"
    /\ LET info_base == finnigan_offset + FILE_HEADER_SIZE
           first == find_raw_file_info_sequential(data)
           r == IF first.ok THEN first ELSE find_raw_file_info(data)
       IN  IF r.ok
           THEN /\ raw_file_info' = r.v
                /\ opc' = "controllers"
                /\ UNCHANGED result
           ELSE /\ Fail(parse_error("RawFileInfo", info_base, Some(ver), r.e))
                /\ UNCHANGED raw_file_info
    /\ UNCHANGED <<data, build, finnigan_offset, ver, run_header, n_scans, scanres>>
    /\ UNCHANGED notOpenVars

\* let rh_addr = raw_file_info.run_header_addr(); if rh_addr == 0 { return
\* Err(StreamNotFound(..)) }
CheckControllers ==
    /\ opc = "controllers"
    /\ IF run_header_addr(raw_file_info) = 0
       THEN Fail(StreamNotFound("File has no data controllers (empty/blank acquisition)"))
       ELSE opc' = "run_header" /\ UNCHANGED result
    /\ UNCHANGED <<data, build, finnigan_offset, ver, raw_file_info, run_header,
                   n_scans, scanres>>
    /\ UNCHANGED notOpenVars

\* RunHeader::parse(&data, rh_addr, ver), errors wrapped by parse_error.
ParseRunHeader ==
    /\ opc = "run_header"
    /\ LET rh_addr == run_header_addr(raw_file_info)
           r == RunHeader_parse(data, rh_addr)
       IN  IF r.ok
           THEN /\ run_header' = r.v
                /\ opc' = "n_scans"
                /\ UNCHANGED result
           ELSE /\ Fail(parse_error("RunHeader", rh_addr, Some(ver), r.e))
                /\ UNCHANGED run_header
    /\ UNCHANGED <<data, build, finnigan_offset, ver, raw_file_info, n_scans, scanres>>
    /\ UNCHANGED notOpenVars

\* let n_scans = run_header.n_scans();
CountScans ==
    /\ opc = "n_scans"
    /\ LET n == n_scans_of(run_header, build)
       IN  IF n.panic
           THEN /\ result' = [tag |-> "panic", at |-> opc]
                /\ opc' = "done"
                /\ UNCHANGED n_scans
           ELSE /\ n_scans' = n.v
                /\ opc' = "scan_index"
                /\ UNCHANGED result
    /\ UNCHANGED <<data, build, finnigan_offset, ver, raw_file_info, run_header, scanres>>
    /\ UNCHANGED notOpenVars

\* find_generic_data_header: two passes over the 20 KiB before spect_pos,
\* the first in steps of 4 from the next aligned position, the second in
\* steps of 1 over the rest.  Each position reads data[pos..pos + 4] with no
\* test against data.len(); the loops are bounded by spect_pos alone.  The
\* image holds at most one well-formed header, at d.gdh_pos.
GDH_SEARCH_WINDOW == 20480
find_generic_data_header(d, spect_pos) ==
    LET search_start == saturating_sub(spect_pos, GDH_SEARCH_WINDOW)
        search_end == spect_pos
        aligned_start == ((search_start + 3) \div 4) * 4
        Visited(p) == p >= search_start /\ p + 4 <= search_end
        Aligned(p) == p >= aligned_start /\ (p - aligned_start) % 4 = 0
        hit == d.gdh_before_spect /\ Visited(d.gdh_pos)
        last_aligned == aligned_start + 4 * ((search_end - 4 - aligned_start) \div 4)
        aligned_beyond == aligned_start + 4 <= search_end /\ last_aligned + 4 > d.len
        any_beyond == search_start + 4 <= search_end /\ search_end > d.len
    IN  IF hit /\ Aligned(d.gdh_pos) THEN [panic |-> FALSE, r |-> Ok(d.gdh_pos)]
        ELSE IF aligned_beyond THEN [panic |-> TRUE]
        ELSE IF hit THEN [panic |-> FALSE, r |-> Ok(d.gdh_pos)]
        ELSE IF any_beyond THEN [panic |-> TRUE]
        ELSE [panic |-> FALSE,
              r |-> Err(StreamNotFound("GenericDataHeader not found before SpectPos"))]

\* The trailer layout from_data settles on: an error of either lookup never
\* fails open, a panic of the backward search does.
trailer_layout_of(d, rh) ==
    IF rh.scan_params_addr > 0 /\ rh.scan_index_addr > 0
    THEN LET found == find_generic_data_header(d, rh.scan_index_addr)
         IN  IF found.panic THEN "panic"
             ELSE IF found.r.ok THEN "header before SpectPos"
             ELSE IF rh.scan_trailer_addr > 0 /\ d.gdh_legacy THEN "header at trailer address"
             ELSE "none"
    ELSE "none"

Handle(d, v, rh, entries) ==
    [version |-> v, run_header |-> rh, scan_index |-> entries,
     data_addr |-> rh.data_addr, data_len |-> d.len,
     trailer_layout |-> [present |-> trailer_layout_of(d, rh) # "none",
                         master_scan_idx |-> TRUE, filter_text_idx |-> TRUE,
                         origin |-> trailer_layout_of(d, rh)],
     scan_events |-> << >>,
     scan_events_addr |-> rh.scan_params_addr]

\* parse_scan_index(&data, si_addr, ver, n_scans), errors wrapped by
\* parse_error; then the remaining fields and Ok(Self { .. }).
ParseScanIndex ==
    /\ opc = "scan_index"
    /\ LET si_addr == run_header.scan_index_addr
           r == parse_scan_index(data, si_addr, n_scans)
       IN  IF r.ok
           THEN /\ result' = IF trailer_layout_of(data, run_header) = "panic"
                             THEN [tag |-> "panic", at |-> "trailer_layout"]
                             ELSE [tag |-> "ok", at |-> "finish",
                                   handle |-> Handle(data, ver, run_header, r.v)]
                /\ opc' = "done"
           ELSE Fail(parse_error("ScanIndex", si_addr, Some(ver), r.e))
    /\ UNCHANGED <<data, build, finnigan_offset, ver, raw_file_info, run_header,
                   n_scans, scanres>>
    /\ UNCHANGED notOpenVars

\* scan(n) on the opened file.
Scan(n) ==
    /\ opc = "done"
    /\ result.tag = "ok"
    /\ scanres' = [tag |-> "returned", n |-> n, r |-> scan(result.handle, n)]
    /\ UNCHANGED <<data, build, opc, finnigan_offset, ver, raw_file_info, run_header,
                   n_scans, result>>
    /\ UNCHANGED notOpenVars

NextOpen ==
    \/ Locate
    \/ ParseFileHeader
    \/ CheckVersion
    \/ FindRawFileInfo
    \/ CheckControllers
    \/ ParseRunHeader
    \/ CountScans
    \/ ParseScanIndex
    \/ \E n \in ScanNumbers : Scan(n)

SpecOpen == InitOpen /\ [][NextOpen]_vars

-----------------------------------------------------------------------------
\* Claims about open() and scan(n) (checked under SpecOpen).

Opened == opc = "done" /\ result.tag = "ok"
OpenFailed == opc = "done" /\ result.tag = "err"
NoHandle == "handle" \notin DOMAIN result

\* C6: on an opened file scan(n) returns ScanOutOfRange(n) for every n below
\* first_scan and every n above last_scan, and never returns ScanOutOfRange
\* for an n with first_scan <= n <= last_scan.
C6_ScanOutOfRange ==
    (Opened /\ scanres.tag = "returned") =>
        LET h == result.handle
            n == scanres.n
            within == U32Le(h.run_header.first_scan, n) /\ U32Le(n, h.run_header.last_scan)
        IN  /\ ~within => scanres.r = Err(ScanOutOfRange(n))
            /\ within => (scanres.r.ok \/ scanres.r.e.variant # "ScanOutOfRange")

ParsingStages == {"header", "info", "run_header", "scan_index"}

StageName(at) ==
    CASE at = "header" -> "FileHeader"
      [] at = "info" -> "RawFileInfo"
      [] at = "run_header" -> "RunHeader"
      [] at = "scan_index" -> "ScanIndex"

\* C7: when open() fails in one of its parsing stages (FileHeader,
\* RawFileInfo, RunHeader, ScanIndex) the error carries that stage's name and
\* the offset the stage read at, and the version for every stage after the
\* FileHeader (the version is not known before); no handle is returned.
C7_StageErrorContext ==
    (OpenFailed /\ result.at \in ParsingStages) =>
        /\ NoHandle
        /\ result.error.variant = "CorruptedData"
        /\ result.error.msg.component = StageName(result.at)
        /\ result.error.msg.offset =
               (CASE result.at = "header" -> finnigan_offset
                  [] result.at = "info" -> finnigan_offset + FILE_HEADER_SIZE
                  [] result.at = "run_header" -> run_header_addr(raw_file_info)
                  [] result.at = "scan_index" -> run_header.scan_index_addr)
        /\ result.at = "header" => result.error.msg.version_str = << >>
        /\ result.at # "header" => result.error.msg.version_str = <<"v", ver>>

\* open() failed in the ScanIndex stage of a version-66 file whose header
\* sits at offset 0: the error names the stage, offset 6000 and v66.
C7_Witness ==
    /\ OpenFailed
    /\ result.at = "scan_index"
    /\ result.error.msg.component = "ScanIndex"
    /\ result.error.msg.offset = 6000
    /\ result.error.msg.version_str = <<"v", U32Of(66)>>

AllOffsetsZero(info) ==
    \A i \in 1..Len(info.controllers) : info.controllers[i].offset = 0

NoControllerOffset(d) ==
    /\ d.sequential.ok
    /\ AllOffsetsZero(d.sequential.info)
    /\ \A i \in 1..Len(d.scanned) : AllOffsetsZero(d.scanned[i])

\* C9: opening a file whose MS controller offset is zero (no controller
\* entry with a non-zero offset) fails with the StreamNotFound variant, not
\* with any other variant, and returns no handle.  (Files that open() has
\* already rejected before it looks for the controllers are left aside.)
C9_NoControllerStreamNotFound ==
    (opc = "done" /\ NoControllerOffset(data)
         /\ result.at \notin {"locate", "header", "version"}) =>
        /\ result.tag = "err"
        /\ result.error.variant = "StreamNotFound"
        /\ NoHandle

\* The locator's contract, stated on the bytes: offset i is a hit when both
\* tag bytes lie in the first 64 KiB of the data, they are 0x01 0xA1, the
\* four bytes at i + 36 exist, and their little-endian value is in (0, 200].
C10_Hit(d, i) ==
    /\ i >= 0 /\ i + 1 < 65536 /\ i + 1 < d.len
    /\ Byte(d, i) = 1 /\ Byte(d, i + 1) = 161
    /\ i + 40 <= d.len
    /\ Byte(d, i + 38) = 0 /\ Byte(d, i + 39) = 0
    /\ Byte(d, i + 36) + 256 * Byte(d, i + 37) > 0
    /\ Byte(d, i + 36) + 256 * Byte(d, i + 37) <= 200

C10_Hits(d) == {i \in 0..65535 : C10_Hit(d, i)}

\* C10: the locator returns the smallest offset in the first 64 KiB at which
\* the tag 0xA101 occurs (any alignment) with the u32 36 bytes later in
\* (0, 200]; open() fails with NotRawFile exactly when there is no such
\* offset.
C10_Locator ==
    /\ opc = "header" =>
           /\ C10_Hit(data, finnigan_offset)
           /\ \A i \in 0..(finnigan_offset - 1) : ~C10_Hit(data, i)
    /\ (opc = "done" /\ scanres.tag = "none") =>
           ((result.tag = "err" /\ result.error.variant = "NotRawFile")
                <=> C10_Hits(data) = {})

\* The locator skipped a tag at offset 4 whose version field is 0 and
\* returned the tag at the odd offset 101.
C10_Witness ==
    /\ opc = "header"
    /\ finnigan_offset = 101
    /\ Byte(data, 4) = 1 /\ Byte(data, 5) = 161
    /\ Byte(data, 40) = 0

\* The version field of the header the locator found: the u32 at +36.
FileVersion ==
    U32FromLeBytes(Byte(data, finnigan_offset + 36), Byte(data, finnigan_offset + 37),
                   Byte(data, finnigan_offset + 38), Byte(data, finnigan_offset + 39))

MagicFound == opc = "done" /\ result.at # "locate"
VersionOutside == U32Lt(FileVersion, U32Of(57)) \/ U32Lt(U32Of(66), FileVersion)
NoLaterStage == raw_file_info = << >> /\ run_header = << >> /\ n_scans = U32Zero

\* C11: whenever the Finnigan magic is found and the file's version v is
\* outside [57, 66], open() fails with UnsupportedVersion(v) and none of the
\* later stages (RawFileInfo, RunHeader, ScanIndex) is parsed.
C11_UnsupportedVersion ==
    (MagicFound /\ VersionOutside) =>
        /\ result.tag = "err"
        /\ result.error = UnsupportedVersion(FileVersion)
        /\ NoLaterStage

\* C11 (amended): whenever the Finnigan magic is found, the whole FileHeader
\* (2384 bytes from the magic) lies inside the file and the version v is
\* outside [57, 66], open() fails with UnsupportedVersion(v) and no later
\* stage is parsed; a header cut short fails in the FileHeader stage instead.
C11_UnsupportedVersionAmended ==
    /\ (MagicFound /\ VersionOutside /\ finnigan_offset + 2384 <= data.len) =>
           /\ result.tag = "err"
           /\ result.error = UnsupportedVersion(FileVersion)
           /\ NoLaterStage
    /\ (MagicFound /\ finnigan_offset + 2384 > data.len) =>
           /\ result.tag = "err"
           /\ result.at = "header"
           /\ NoLaterStage

\* open() rejected a complete header of version 56 with
\* UnsupportedVersion(56), having parsed nothing after the header.
C11_Witness ==
    /\ MagicFound
    /\ FileVersion = U32Of(56)
    /\ result.tag = "err"
    /\ result.error = UnsupportedVersion(U32Of(56))
    /\ raw_file_info = << >>

-----------------------------------------------------------------------------
\* BinaryReader (io_utils.rs): a cursor over a byte slice.  The buffer is a
\* sequence of bytes, data[i] of the code being buffer[i + 1]; the cursor may
\* be set anywhere, also past the end.

MaxBufLen  == 8     \* longest all-zero buffer explored
MaxRequest == 6     \* largest length asked of read_bytes, skip and slice

ZeroBuffer(n) == [i \in 1..n |-> 0]

Buffers ==
    {ZeroBuffer(n) : n \in 0..MaxBufLen}
        \cup { <<3, 0, 0, 0, 33, 0, 34, 0, 35, 0>>,
               <<3, 0, 0, 0, 33, 0>>,
               <<255, 255, 255, 255, 1, 2>>,
               <<1, 161, 57, 0, 0, 0, 40, 0, 0, 0, 0, 0>> }

Reader(buffer, pos) == [data |-> buffer, pos |-> pos]

\* len.saturating_sub(pos)
remaining(rd) == saturating_sub(Len(rd.data), rd.pos)

InsufficientBytes(op, needed, rd) ==
    CorruptedData([op |-> op, needed |-> needed, offset |-> rd.pos,
                   remaining |-> remaining(rd), file_size |-> Len(rd.data)])

\* A variant that lets a request one byte too long through.
check_remaining_lax(rd, needed, op) ==
    IF remaining(rd) + 1 < needed
    THEN Err(InsufficientBytes(op, needed, rd))
    ELSE Ok(<< >>)
\* "{op}: need {needed} bytes at offset {pos}, but only {remaining} remaining
\* (file size: {len})"
check_remaining(rd, needed, op) ==
    IF remaining(rd) < needed
    THEN Err(InsufficientBytes(op, needed, rd))
    ELSE Ok(<< >>)

\* What one operation did: its result, the reader afterwards, and the buffer
\* positions it read.
Done(r, rd, touched) == [r |-> r, rd |-> rd, touched |-> touched]
Panic == [ok |-> FALSE, e |-> [variant |-> "panic"]]

Advance(rd, n) == [rd EXCEPT !.pos = @ + n]
Span(rd, n) == rd.pos .. (rd.pos + n - 1)
BytesAt(rd, n) == [i \in 1..n |-> rd.data[rd.pos + i]]

\* The fixed-size reads and the number of bytes each takes.
FixedOps == {"read_u8", "read_u16", "read_u32", "read_i32", "read_u64",
             "read_f32", "read_f64"}
SizeOf(op) ==
    CASE op = "read_u8" -> 1
      [] op = "read_u16" -> 2
      [] op \in {"read_u32", "read_i32", "read_f32"} -> 4
      [] op \in {"read_u64", "read_f64"} -> 8

\* i32::from_le_bytes, as an integer.
I32FromLeBytes(b) ==
    LET u == U32FromLeBytes(b[1], b[2], b[3], b[4])
    IN  IF u[1] < LIMB \div 2 THEN u[1] * LIMB + u[2]
        ELSE (u[1] - LIMB) * LIMB + u[2]

\* The value a fixed-size read makes of its bytes (floats and u64 are kept
\* as their little-endian bytes).
ValueOf(op, b) ==
    CASE op = "read_u8" -> b[1]
      [] op = "read_u16" -> b[1] + 256 * b[2]
      [] op = "read_u32" -> U32FromLeBytes(b[1], b[2], b[3], b[4])
      [] op = "read_i32" -> I32FromLeBytes(b)
      [] OTHER -> b

\* read_u8 .. read_f64: check_remaining, then the cursor's own read, which
\* fails with an Io error if the bytes are not there.
read_fixed(rd, op) ==
    LET c == check_remaining(rd, SizeOf(op), op)
    IN  IF ~c.ok THEN Done(c, rd, {})
        ELSE IF rd.pos + SizeOf(op) > Len(rd.data) THEN Done(Err(EndOfData), rd, {})
        ELSE Done(Ok(ValueOf(op, BytesAt(rd, SizeOf(op)))),
                  Advance(rd, SizeOf(op)), Span(rd, SizeOf(op)))

\* read_bytes: check_remaining, then data[pos..pos + n], which panics when
\* the range is not inside the buffer.
read_bytes(rd, n) ==
    LET c == check_remaining(rd, n, "read_bytes")
    IN  IF ~c.ok THEN Done(c, rd, {})
        ELSE IF rd.pos + n > Len(rd.data) THEN Done(Panic, rd, {})
        ELSE Done(Ok(BytesAt(rd, n)), Advance(rd, n), Span(rd, n))

skip(rd, n) ==
    LET c == check_remaining(rd, n, "skip")
    IN  IF ~c.ok THEN Done(c, rd, {})
        ELSE Done(Ok(<< >>), Advance(rd, n), {})

slice(rd, n) ==
    LET c == check_remaining(rd, n, "slice")
    IN  IF ~c.ok THEN Done(c, rd, {})
        ELSE IF rd.pos + n > Len(rd.data) THEN Done(Panic, rd, {})
        ELSE Done(Ok(BytesAt(rd, n)), rd, Span(rd, n))

\* The u16 code units of bytes taken in pairs (chunks_exact(2)), without
\* the trailing NULs (trim_end_matches('\0')).
RECURSIVE TrimNuls(_)
TrimNuls(u) ==
    IF u = << >> THEN u
    ELSE IF u[Len(u)] = 0 THEN TrimNuls(SubSeq(u, 1, Len(u) - 1))
    ELSE u

Utf16Of(b) == TrimNuls([i \in 1..(Len(b) \div 2) |-> b[2 * i - 1] + 256 * b[2 * i]])

read_utf16_fixed(rd, byte_len) ==
    LET d == read_bytes(rd, byte_len)
    IN  IF d.r.ok THEN Done(Ok(Utf16Of(d.r.v)), d.rd, d.touched) ELSE d

NegativeLength(len) ==
    CorruptedData([text |-> "PascalString with negative length", len |-> len])

skip_pascal_string(rd) ==
    LET h == read_fixed(rd, "read_i32")
    IN  IF ~h.r.ok THEN h
        ELSE IF h.r.v < 0 THEN Done(Err(NegativeLength(h.r.v)), h.rd, h.touched)
        ELSE IF h.r.v > 0
             THEN LET s == skip(h.rd, h.r.v * 2)
                  IN  Done(s.r, s.rd, h.touched \cup s.touched)
        ELSE Done(Ok(<< >>), h.rd, h.touched)

read_pascal_string(rd) ==
    LET h == read_fixed(rd, "read_i32")
    IN  IF ~h.r.ok THEN h
        ELSE IF h.r.v < 0 THEN Done(Err(NegativeLength(h.r.v)), h.rd, h.touched)
        ELSE IF h.r.v = 0 THEN Done(Ok(<< >>), h.rd, h.touched)
        ELSE LET s == read_utf16_fixed(h.rd, h.r.v * 2)
             IN  Done(s.r, s.rd, h.touched \cup s.touched)

\* read_f32_array / read_f64_array: count reads of one element, stopping at
\* the first that fails.
RECURSIVE read_array(_, _, _, _, _)
read_array(rd, op, count, acc, touched) ==
    IF count = 0 THEN Done(Ok(acc), rd, touched)
    ELSE LET d == read_fixed(rd, op)
         IN  IF ~d.r.ok THEN Done(d.r, d.rd, touched \cup d.touched)
             ELSE read_array(d.rd, op, count - 1, Append(acc, d.r.v),
                             touched \cup d.touched)

ArrayCounts == 0..2
Positions == 0..(MaxBufLen + 6)

ReaderIs(d, op, n, pos0) ==
    /\ reader' = d.rd
    /\ rret' = [tag |-> "returned", op |-> op, n |-> n, pos0 |-> pos0,
                r |-> d.r, touched |-> d.touched]
    /\ UNCHANGED notReaderVars

InitReader ==
    /\ GuiIdle
    /\ reader \in {Reader(b, 0) : b \in Buffers}
    /\ rret = [tag |-> "none"]
    /\ file = << >>
    /\ XicIdle
    /\ OnceIdle
    /\ OpenIdle
    /\ FnIdle

\* BinaryReader::set_position (and at_offset): the cursor goes anywhere.
SetPosition(p) ==
    /\ reader' = [reader EXCEPT !.pos = p]
    /\ rret' = [tag |-> "none"]
    /\ UNCHANGED notReaderVars

ReadFixed(op) == ReaderIs(read_fixed(reader, op), op, SizeOf(op), reader.pos)
ReadBytes(n) == ReaderIs(read_bytes(reader, n), "read_bytes", n, reader.pos)
Skip(n) == ReaderIs(skip(reader, n), "skip", n, reader.pos)
Slice(n) == ReaderIs(slice(reader, n), "slice", n, reader.pos)
ReadUtf16Fixed(n) ==
    ReaderIs(read_utf16_fixed(reader, n), "read_utf16_fixed", n, reader.pos)
SkipPascalString ==
    ReaderIs(skip_pascal_string(reader), "skip_pascal_string", 0, reader.pos)
ReadPascalString ==
    ReaderIs(read_pascal_string(reader), "read_pascal_string", 0, reader.pos)
ReadF32Array(c) ==
    ReaderIs(read_array(reader, "read_f32", c, << >>, {}), "read_f32_array", c, reader.pos)
ReadF64Array(c) ==
    ReaderIs(read_array(reader, "read_f64", c, << >>, {}), "read_f64_array", c, reader.pos)

NextReader ==
    \/ \E p \in Positions : SetPosition(p)
    \/ \E op \in FixedOps : ReadFixed(op)
    \/ \E n \in 0..MaxRequest : ReadBytes(n)
    \/ \E n \in 0..MaxRequest : Skip(n)
    \/ \E n \in 0..MaxRequest : Slice(n)
    \/ \E n \in 0..MaxRequest : ReadUtf16Fixed(n)
    \/ SkipPascalString
    \/ ReadPascalString
    \/ \E c \in ArrayCounts : ReadF32Array(c)
    \/ \E c \in ArrayCounts : ReadF64Array(c)

SpecReader == InitReader /\ [][NextReader]_vars

\* Claim C12, stated on the operation that ran: op asked for n bytes with the
\* cursor at pos0.
PrimitiveOps == FixedOps \cup {"read_bytes", "skip", "slice"}
RemainingAt(p) == IF Len(reader.data) >= p THEN Len(reader.data) - p ELSE 0

Structured(op, needed, offset) ==
    Err(CorruptedData([op |-> op, needed |-> needed, offset |-> offset,
                       remaining |-> RemainingAt(offset),
                       file_size |-> Len(reader.data)]))

\* C12: every read or skip of the byte reader that needs more bytes than
\* remain after the cursor fails with a CorruptedData error carrying the
\* operation name, the requested length, the current offset, the remaining
\* bytes and the buffer size, and no operation reads outside the buffer.
\* (read_utf16_fixed reports as read_bytes; the array reads report the
\* element read that ran short, at that element's offset; the Pascal-string
\* operations report the read_i32 of the length or the skip / read_bytes of
\* the characters.)
C12_CheckedReads ==
    rret.tag = "returned" =>
        /\ rret.touched \subseteq 0..(Len(reader.data) - 1)
        /\ (rret.op \in PrimitiveOps /\ rret.n > RemainingAt(rret.pos0)) =>
               rret.r = Structured(rret.op, rret.n, rret.pos0)
        /\ (rret.op = "read_utf16_fixed" /\ rret.n > RemainingAt(rret.pos0)) =>
               rret.r = Structured("read_bytes", rret.n, rret.pos0)
        /\ (rret.op = "read_f32_array" /\ 4 * rret.n > RemainingAt(rret.pos0)) =>
               LET k == RemainingAt(rret.pos0) \div 4
               IN  rret.r = Structured("read_f32", 4, rret.pos0 + 4 * k)
        /\ (rret.op = "read_f64_array" /\ 8 * rret.n > RemainingAt(rret.pos0)) =>
               LET k == RemainingAt(rret.pos0) \div 8
               IN  rret.r = Structured("read_f64", 8, rret.pos0 + 8 * k)
        /\ (rret.op \in {"skip_pascal_string", "read_pascal_string"}
                /\ 4 > RemainingAt(rret.pos0)) =>
               rret.r = Structured("read_i32", 4, rret.pos0)
        /\ (rret.op \in {"skip_pascal_string", "read_pascal_string"}
                /\ 4 <= RemainingAt(rret.pos0)) =>
               LET len == I32FromLeBytes([i \in 1..4 |-> reader.data[rret.pos0 + i]])
               IN  (len > 0 /\ 2 * len > RemainingAt(rret.pos0 + 4)) =>
                       rret.r = Structured(IF rret.op = "skip_pascal_string"
                                           THEN "skip" ELSE "read_bytes",
                                           2 * len, rret.pos0 + 4)

\* read_u32 with the cursor at 6 of an 8-byte buffer: 4 bytes needed, 2
\* remaining, reported as such.
C12_Witness ==
    /\ rret.tag = "returned"
    /\ rret.op = "read_u32"
    /\ rret.pos0 = 6
    /\ Len(reader.data) = 8
    /\ rret.r = Err(CorruptedData([op |-> "read_u32", needed |-> 4, offset |-> 6,
                                   remaining |-> 2, file_size |-> 8]))


\* ======================================================================
\* Functions of one scan: decode_scan, enrich_scan, is_ms1_scan and the
\* trailer layout, each applied to an argument drawn from a bounded set.
\* ======================================================================

\* ---- scan index stride detection ----
\* Retention times are in thousandths of a minute, so that the bounds and the
\* tolerance of is_valid_stride are integers.
RT_MIN == -100
RT_MAX == 1440000
RT_TOLERANCE == 1
CHECKED_RECORDS == 5

\* is_valid_stride on the retention times read at a stride (rts holds the
\* records that fit in the file at that stride): each of the first
\* min(n_scans, 5) records fits, its retention time is in [-0.1, 1440] and it
\* is not lower than the one before by more than 0.001.
is_valid_stride(rts, n) ==
    LET check == Min2(n, CHECKED_RECORDS)
    IN  \A i \in 1..check :
            /\ i <= Len(rts)
            /\ rts[i] >= RT_MIN /\ rts[i] <= RT_MAX
            /\ (i > 1 => ~(rts[i] < rts[i - 1] - RT_TOLERANCE))

\* detect_entry_size without the retry at 72 bytes.
detect_entry_size_no_retry(documented, rts_documented, rts_72, n) ==
    IF n < 3 THEN documented
    ELSE IF is_valid_stride(rts_documented, n) THEN documented
    ELSE documented

\* detect_entry_size: the documented size, or 72 when only that stride is
\* plausible; an implausible retention-time column never rejects the file.
detect_entry_size(documented, rts_documented, rts_72, n) ==
    IF n < 3 THEN documented
    ELSE IF is_valid_stride(rts_documented, n) THEN documented
    ELSE IF documented # 72 /\ is_valid_stride(rts_72, n) THEN 72
    ELSE documented

\* version::scan_index_entry_size: 72, 80 or 88 bytes.
DocumentedSizes == {72, 80, 88}
\* Retention-time columns as a stride reads them.
RtColumns ==
    {<<0, 1000, 2000, 3000, 4000>>,
     <<0, 1000, 2000, 3000, 4000, 100>>,
     <<-100, 0, 0, 0, 0, 0>>,
     <<-101, 0, 0, 0, 0, 0>>,
     <<1000, 999, 1000, 1000, 1000, 1000>>,
     <<1000, 998, 1000, 1000, 1000, 1000>>,
     <<0, 1440000, 1440000, 1440000>>,
     <<0, 1440001, 1440001, 1440001>>,
     <<5000, 1000>>,
     <<0, 1000>>,
     <<7000>>,
     << >>}
MaxIndexed == 6
StrideArgs ==
    {[fn |-> "detect_entry_size", documented |-> doc,
      rts_documented |-> rd, rts_72 |-> r72, n_scans |-> n] :
        doc \in DocumentedSizes, rd \in RtColumns,
        r72 \in RtColumns, n \in 1..MaxIndexed}

\* ---- decode_scan arguments ----
\* The file is 64 bytes; the data stream starts at 0 or at 16.
DecodeFiles == {[data_addr |-> a, data_len |-> 64] : a \in {0, 16}}
\* Packet types: every boundary of the three known ranges, codes outside
\* them, and codes with a non-zero high word.
PacketTypes == {0, 5, 6, 13, 14, 17, 18, 21, 22, 65535,
                LIMB + 21, 3 * LIMB + 7}
PacketStates == {"ok", "bad_header", "bad_peaks"}
ScalarSets == {Scalars(1, 700, 445, 90), Scalars(2, 0, 0, 0)}
\* (data_size, number_packets): empty, pre-v65 (no size), sized.
Shapes == {<<0, 0>>, <<0, 1>>, <<10, 1>>, <<10, 0>>, <<24, 2>>}
EntryOffsets == {0, 40, 48, 54, 64, 70}
DecodeEntries ==
    {ScanIndexEntry(o, s[1], s[2], t, p, sc) :
        o \in EntryOffsets, s \in Shapes, t \in PacketTypes,
        p \in PacketStates, sc \in ScalarSets}
DecodeArgs ==
    {[fn |-> "decode_scan", h |-> h, entry |-> e, scan_number |-> 1] :
        h \in DecodeFiles, e \in DecodeEntries}

\* ---- enrich_scan / is_ms1_scan arguments: a file of one scan ----
FILTER_NEG_MS3 == <<"I", "T", "M", "S", " ", "-", " ", "M", "S", "3", " ",
                    "4", "2", "@", "c", "i", "d">>
FilterTexts == {FILTER_MS1, FILTER_MS2, FILTER_NEG_MS3, << >>, <<"m", "s", " ">>}
Layouts ==
    {[present |-> TRUE, master_scan_idx |-> m, filter_text_idx |-> t] :
        m \in BOOLEAN, t \in BOOLEAN}
    \cup {LayoutNone}
TrailerRecords ==
    {[master |-> Field(mo, mv), filter |-> [ok |-> fo, str |-> fs],
      mono_mz |-> Field(zo, 524), charge |-> Field(TRUE, 2),
      isolation_width |-> Field(TRUE, 2)] :
        mo \in BOOLEAN, mv \in {0, 7, -1}, fo \in BOOLEAN, fs \in FilterTexts,
        zo \in BOOLEAN}
Reaction == [precursor_mz |-> 300, isolation_width |-> 2,
             collision_energy |-> 30, activation |-> "hcd"]
ScanEventOf(ms_level, polarity) ==
    [preamble |-> [ms_level |-> ms_level, polarity |-> polarity],
     reactions |-> IF ms_level = "Ms1" THEN << >> ELSE <<Reaction>>]
ScanEventLists == {<< >>, <<ScanEventOf("Ms1", "Positive")>>,
                   <<ScanEventOf("Ms2", "Negative")>>}
OneScanFiles ==
    {[scan_index |-> <<[IE_ok EXCEPT !.trailer = rec]>>,
      scan_events |-> evs, trailer_layout |-> layout,
      data_addr |-> 0, data_len |-> 64] :
        rec \in TrailerRecords, evs \in ScanEventLists, layout \in Layouts}
EnrichArgs ==
    {[fn |-> "enrich_scan", f |-> f, i |-> 1,
      scan |-> ScanOf(1, f.scan_index[1], << >>)] : f \in OneScanFiles}
IsMs1Args == {[fn |-> "is_ms1_scan", f |-> f, i |-> 1] : f \in OneScanFiles}

\* ---- TrailerLayout::from_header ----
\* field_byte_size: the width of a field from its type code, the declared
\* length for strings and for unknown codes.
field_byte_size(desc) ==
    CASE desc.type_code = 0 -> 0
      [] desc.type_code \in {1, 2, 7, 3, 4} -> 1
      [] desc.type_code \in {8, 9, 5, 10} -> 4
      [] desc.type_code \in {6, 11} -> 8
      [] OTHER -> desc.length

\* The offsets pushed by the loop of from_header: the running sum of the
\* widths before each field.
RECURSIVE SumWidths(_, _)
SumWidths(descriptors, k) ==
    IF k = 0 THEN 0
    ELSE SumWidths(descriptors, k - 1) + field_byte_size(descriptors[k])

\* A label is its text and the colons that follow it; find_field compares
\* the text once the colons are trimmed.
find_field(descriptors, name) ==
    LET hits == {k \in 1..Len(descriptors) : descriptors[k].label.text = name}
    IN  IF hits = {} THEN None ELSE Some(SetMin(hits) - 1)
or_else(a, b) == IF a.some THEN a ELSE b

\* from_header: the offsets, the record size and the indices of the fields
\* the reader looks up by label.
from_header(header) ==
    [header |-> header,
     record_size |-> SumWidths(header.descriptors, Len(header.descriptors)),
     field_offsets |-> [k \in 1..Len(header.descriptors) |->
                            SumWidths(header.descriptors, k - 1)],
     filter_text_idx |-> find_field(header.descriptors, "Filter Text"),
     master_scan_idx |-> or_else(find_field(header.descriptors, "Master Scan Number"),
                                 find_field(header.descriptors, "Master Index"))]

\* The absolute offset of a field of a scan's record (scan_index 0-based,
\* field_idx 0-based).
field_offset(layout, scan_index, field_idx) ==
    layout.header.records_offset + scan_index * layout.record_size
        + layout.field_offsets[field_idx + 1]

\* ---- from_header arguments ----
MaxFields == 2
Descriptor(type_code, length, text, colon) ==
    [type_code |-> type_code, length |-> length,
     label |-> [text |-> text, colon |-> colon]]
Descriptors ==
    {Descriptor(8, 0, "Master Scan Number", TRUE),
     Descriptor(8, 0, "Master Index", FALSE),
     Descriptor(12, 3, "Filter Text", FALSE),
     Descriptor(13, 6, "Filter Text", TRUE),
     Descriptor(0, 0, "", FALSE),
     Descriptor(4, 0, "Flag", TRUE),
     Descriptor(11, 0, "Monoisotopic M/Z", TRUE),
     Descriptor(99, 5, "Vendor", FALSE)}
DescriptorLists == UNION {[1..n -> Descriptors] : n \in 0..MaxFields}
\* The header the open found, with the records offset it settled on (the
\* trailer-extra address of the run header, or the end of the header), in a
\* file of 64 bytes with n_scans scans.
LayoutArgs ==
    {[fn |-> "from_header",
      header |-> [descriptors |-> ds, records_offset |-> ro],
      n_scans |-> n, data_len |-> 64] :
        ds \in DescriptorLists, ro \in {40, 60}, n \in 0..MaxScans}

SameStride(a) == a.documented = 72 => a.rts_72 = a.rts_documented
\* ---- trailer_extra ----
\* parse_trailer_extra: the record of scan_index (0-based) starts at
\* records_offset + scan_index * rec_size; the fields are read one after the
\* other and the first one that does not fit in the buffer ends the call. The
\* map is identified by the bytes it was decoded from.
parse_trailer_extra(data_len, header, scan_index) ==
    LET ds == header.descriptors
        rec_size == SumWidths(ds, Len(ds))
        rec_offset == header.records_offset + scan_index * rec_size
        Fits(k) == field_byte_size(ds[k]) = 0
                       \/ rec_offset + SumWidths(ds, k) <= data_len
    IN  IF \A k \in 1..Len(ds) : Fits(k)
        THEN Ok([from |-> rec_offset, size |-> rec_size])
        ELSE Err(EndOfData)

\* trailer_extra: the layout, then the subtraction of first_scan, then the
\* record at that index.
trailer_extra(f, scan_number) ==
    IF ~f.trailer_layout.some THEN Err(StreamNotFound("trailer extra"))
    ELSE LET scan_idx == checked_sub(scan_number, f.run_header.first_scan)
         IN  IF ~scan_idx.some THEN Err(ScanOutOfRange(scan_number))
             ELSE parse_trailer_extra(f.data_len, f.trailer_layout.v.header,
                                      AsUsize(scan_idx.v))

\* Files of n scans numbered from first_scan, with or without a trailer
\* layout, whose trailer records start at byte 40; the file ends at byte 52
\* or goes on to byte 64.
MaxScanNumber == 5
\* Records of 4, 10, 0 and 12 bytes, and a header without fields.
TrailerHeaders ==
    {<<Descriptor(8, 0, "Master Scan Number", TRUE)>>,
     <<Descriptor(13, 6, "Filter Text", TRUE), Descriptor(8, 0, "Master Scan Number", TRUE)>>,
     <<Descriptor(0, 0, "", FALSE)>>,
     <<Descriptor(11, 0, "Monoisotopic M/Z", TRUE), Descriptor(8, 0, "Master Index", FALSE)>>,
     << >>}
TrailerFiles ==
    {[trailer_layout |-> layout, run_header |-> [first_scan |-> U32Of(first)],
      n_scans |-> n, data_len |-> len] :
        layout \in {None} \cup
            {Some([header |-> [descriptors |-> ds, records_offset |-> 40]]) :
                ds \in TrailerHeaders},
        first \in {1, 2}, n \in 1..MaxScans, len \in {52, 64}}
TrailerArgs ==
    {[fn |-> "trailer_extra", f |-> f, scan_number |-> U32Of(k)] :
        f \in TrailerFiles, k \in 0..MaxScanNumber}

\* ---- has_valid_controllers_strict arguments ----
\* Declared controllers: valid ones, one with device index 9, one with device
\* type 6, offsets at the two bounds, and a zero entry.
DeclaredCtls ==
    {Ctl(0, 0, 5000), Ctl(0, 9, 5000), Ctl(6, 0, 5000),
     Ctl(0, 0, MIN_CONTROLLER_OFFSET), Ctl(0, 0, 20000), ZeroCtl}
CtlPrefixes == UNION {[1..n -> DeclaredCtls] : n \in 0..2}
\* A candidate as RawFileInfo::parse reads it at some offset: a date, a
\* declared count, the first entries, and one further entry that is zero or
\* not.
Candidates ==
    {[Info(dt, n, prefix) EXCEPT !.controllers[p] = x] :
        dt \in {GoodDate, ZeroDate}, n \in {0, 1, 2, MAX_CONTROLLERS + 1},
        prefix \in CtlPrefixes, p \in {3, 6, 7, 17, N_VCI},
        x \in {ZeroCtl, Ctl(1, 0, 9000)}}
StrictArgs ==
    {[fn |-> "has_valid_controllers_strict", info |-> c, file_size |-> 20000] :
        c \in Candidates}

\* ---- RunHeader::parse, version >= 64: the 64-bit address block ----
\* The buffer is its length and the 32-bit words that are not zero, at the
\* addresses the 4-byte steps of the search visit. An int64 is two words; the
\* values that matter are below 2^31, so a non-zero high word is a value
\* beyond any file.
ADDRESS_SEARCH_WINDOW == 8192
SAMPLE_INFO_SIZE == 88
WordAt(buf, p) == IF p \in DOMAIN buf.mem THEN buf.mem[p] ELSE 0
U64At(buf, p) == [lo |-> WordAt(buf, p), hi |-> WordAt(buf, p + 4)]
U64Is(v, n) == v.hi = 0 /\ v.lo = n
InsideFile(v, file_size) == v.hi = 0 /\ v.lo > 0 /\ v.lo < file_size

validate_address_block(buf, block_start, file_size) ==
    /\ InsideFile(U64At(buf, block_start), file_size)
    /\ InsideFile(U64At(buf, block_start + 8), file_size)

validate_address_block_with_vci(buf, block_start, file_size) ==
    /\ \/ InsideFile(U64At(buf, block_start), file_size)
       \/ InsideFile(U64At(buf, block_start + 8), file_size)
    /\ LET vci_start == block_start + 56
           device_type == WordAt(buf, vci_start)
           device_index == WordAt(buf, vci_start + 4)
       IN  /\ device_type >= 0 /\ device_type <= 5
           /\ device_index >= 0 /\ device_index <= 7

\* The positions the loop visits, and what each of them yields.
SearchPositions(buf, search_from) ==
    LET search_end == Min2(search_from + ADDRESS_SEARCH_WINDOW, buf.len)
    IN  {pos \in search_from..(search_end - 8) : (pos - search_from) % 4 = 0}
AsRunHeaderPos(buf, search_from, pos) ==
    /\ pos >= 32
    /\ pos - 32 >= search_from
    /\ pos - 32 + 56 <= buf.len
    /\ validate_address_block(buf, pos - 32, buf.len)
AsVciOffset(buf, search_from, pos) ==
    /\ pos >= 64
    /\ pos - 64 >= search_from
    /\ pos - 64 + 72 <= buf.len
    /\ validate_address_block_with_vci(buf, pos - 64, buf.len)

\* find_address_block that takes the first hit as RunHeaderPos without
\* validating the block.
find_address_block_first_hit(buf, search_from, run_header_offset) ==
    LET hits == {pos \in SearchPositions(buf, search_from) :
                    /\ U64Is(U64At(buf, pos), run_header_offset)
                    /\ pos >= 32 /\ pos - 32 >= search_from
                    /\ pos - 32 + 56 <= buf.len}
    IN  IF hits = {}
        THEN Err(CorruptedData("RunHeader: could not locate 64-bit address block"))
        ELSE Ok(SetMin(hits) - 32)
\* find_address_block: the first position, in 4-byte steps, that holds the
\* run header's offset and passes one of the two interpretations.
find_address_block(buf, search_from, run_header_offset) ==
    LET hits == {pos \in SearchPositions(buf, search_from) :
                    /\ U64Is(U64At(buf, pos), run_header_offset)
                    /\ \/ AsRunHeaderPos(buf, search_from, pos)
                       \/ AsVciOffset(buf, search_from, pos)}
    IN  IF hits = {}
        THEN Err(CorruptedData("RunHeader: could not locate 64-bit address block"))
        ELSE LET pos == SetMin(hits)
             IN  IF AsRunHeaderPos(buf, search_from, pos)
                 THEN Ok(pos - 32) ELSE Ok(pos - 64)

\* RunHeader::parse for version >= 64: the 88 bytes of SampleInfo, the search,
\* then the seven addresses, the VCI record, the six extras and, from
\* version 66, the instrument type.
RunHeader_parse_v64(buf, offset, version) ==
    IF offset + SAMPLE_INFO_SIZE > buf.len THEN Err(EndOfData)
    ELSE LET search_from == offset + SAMPLE_INFO_SIZE
             found == find_address_block(buf, search_from, offset)
         IN  IF ~found.ok THEN found
             ELSE LET read == 56 + 16 + 72 + (IF version >= 66 THEN 4 ELSE 0)
                  IN  IF found.v + read > buf.len THEN Err(EndOfData)
                      ELSE Ok([block |-> found.v,
                               scan_index_addr |-> U64At(buf, found.v),
                               data_addr |-> U64At(buf, found.v + 8)])

\* An address block at c with its VCI record, in a buffer of zeros.
BlockAt(c, spect, packet, rhpos, ty, ix, off) ==
    (c :> spect) @@ (c + 8 :> packet) @@ (c + 32 :> rhpos)
        @@ (c + 56 :> ty) @@ (c + 60 :> ix) @@ (c + 64 :> off)
\* Blocks at the start of the search, further on, at the last places the two
\* interpretations reach, and past them; a run header at RH_ADDR.
BlockStarts ==
    {RH_ADDR + SAMPLE_INFO_SIZE, RH_ADDR + SAMPLE_INFO_SIZE + 32,
     RH_ADDR + SAMPLE_INFO_SIZE + ADDRESS_SEARCH_WINDOW - 72,
     RH_ADDR + SAMPLE_INFO_SIZE + ADDRESS_SEARCH_WINDOW - 40,
     RH_ADDR + SAMPLE_INFO_SIZE + ADDRESS_SEARCH_WINDOW - 36}
AddressImages ==
    {[len |-> len,
      mem |-> BlockAt(c, spect, packet, rhpos, vci[1], vci[2], off)
                  @@ (RH_ADDR + SAMPLE_INFO_SIZE + 8 :> decoy)] :
        len \in {20000, 13300}, c \in BlockStarts,
        spect \in {0, 6000, 30000}, packet \in {0, 8000}, rhpos \in {0, RH_ADDR},
        vci \in {<<0, 0>>, <<6, 0>>, <<0, 8>>}, off \in {0, RH_ADDR},
        decoy \in {0, RH_ADDR}}
AddressArgs ==
    {[fn |-> "RunHeader_parse", data |-> d, offset |-> RH_ADDR, version |-> v] :
        d \in AddressImages, v \in {64, 66}}

\* ---- centroid sums over a legacy peak list ----
\* The peak list as read from the packet: count peaks of (mz, intensity).
\* sum_centroids_in_range: peaks in order, stopping at the first m/z above
\* mz_high.
RECURSIVE SumFrom(_, _, _, _)
SumFrom(peaks, i, mz_low, mz_high) ==
    IF i > Len(peaks) THEN 0
    ELSE IF peaks[i].mz > mz_high THEN 0
    ELSE (IF peaks[i].mz >= mz_low THEN peaks[i].int ELSE 0)
             + SumFrom(peaks, i + 1, mz_low, mz_high)
sum_centroids_in_range(peaks, mz_low, mz_high) == Ok(SumFrom(peaks, 1, mz_low, mz_high))

\* The `while` that moves range_start past the ranges whose high is below mz.
RECURSIVE Advance_range_start(_, _, _)
Advance_range_start(ranges, range_start, mz) ==
    IF range_start <= Len(ranges) /\ ranges[range_start].high < mz
    THEN Advance_range_start(ranges, range_start + 1, mz)
    ELSE range_start
\* The inner `for r in range_start..n_ranges`: stops at the first range whose
\* low is above mz, adds the intensity to the ranges that hold mz.
RECURSIVE AddToRanges(_, _, _, _)
AddToRanges(ranges, r, peak, acc) ==
    IF r > Len(ranges) THEN acc
    ELSE IF ranges[r].low > peak.mz THEN acc
    ELSE AddToRanges(ranges, r + 1, peak,
             IF peak.mz <= ranges[r].high
             THEN [acc EXCEPT ![r] = acc[r] + peak.int] ELSE acc)
\* The inner loop without the test against the range's high bound.
RECURSIVE AddToRangesNoHigh(_, _, _, _)
AddToRangesNoHigh(ranges, r, peak, acc) ==
    IF r > Len(ranges) THEN acc
    ELSE IF ranges[r].low > peak.mz THEN acc
    ELSE AddToRangesNoHigh(ranges, r + 1, peak, [acc EXCEPT ![r] = acc[r] + peak.int])
\* The outer loop over the peaks (range_start is 1-based here).
RECURSIVE MultiFrom(_, _, _, _, _)
MultiFrom(peaks, i, ranges, range_start, acc) ==
    IF i > Len(peaks) THEN acc
    ELSE LET rs == Advance_range_start(ranges, range_start, peaks[i].mz)
         IN  IF rs > Len(ranges) THEN acc
             ELSE MultiFrom(peaks, i + 1, ranges, rs,
                            AddToRanges(ranges, rs, peaks[i], acc))
RECURSIVE MultiFromNoHigh(_, _, _, _, _)
MultiFromNoHigh(peaks, i, ranges, range_start, acc) ==
    IF i > Len(peaks) THEN acc
    ELSE LET rs == Advance_range_start(ranges, range_start, peaks[i].mz)
         IN  IF rs > Len(ranges) THEN acc
             ELSE MultiFromNoHigh(peaks, i + 1, ranges, rs,
                                  AddToRangesNoHigh(ranges, rs, peaks[i], acc))
sum_centroids_multi_target_no_high(peaks, ranges) ==
    Ok(MultiFromNoHigh(peaks, 1, ranges, 1, [r \in 1..Len(ranges) |-> 0]))
\* sum_centroids_multi_target: out (as long as ranges) zeroed, then one pass.
sum_centroids_multi_target(peaks, ranges) ==
    Ok(MultiFrom(peaks, 1, ranges, 1, [r \in 1..Len(ranges) |-> 0]))

MaxPeaks == 3
MaxRanges == 2
MzValues == {100, 200, 300, 400}
\* Peak lists ascending in m/z (equal values allowed); the intensity of the
\* i-th peak is 2^(i-1), so a sum tells which peaks it holds.
SortedMz(n) ==
    {q \in [1..n -> MzValues] : \A a, b \in 1..n : a < b => q[a] <= q[b]}
PeakLists ==
    UNION {{[i \in 1..n |-> [mz |-> mzs[i], int |-> 2 ^ (i - 1)]] :
                mzs \in SortedMz(n)} : n \in 0..MaxPeaks}
RangeOfMz(low, high) == [low |-> low, high |-> high]
MzRanges == {RangeOfMz(100, 400), RangeOfMz(200, 300), RangeOfMz(200, 200),
             RangeOfMz(300, 100), RangeOfMz(100, 200), RangeOfMz(300, 400)}
\* Range lists sorted by low bound; overlapping and nested ranges included.
RangeLists ==
    UNION {{rs \in [1..n -> MzRanges] :
                \A a, b \in 1..n : a < b => rs[a].low <= rs[b].low} :
           n \in 0..MaxRanges}
SumArgs ==
    {[fn |-> "sum_centroids_multi_target", peaks |-> ps, ranges |-> rs] :
        ps \in PeakLists, rs \in RangeLists}

\* ---- packet decoders: counts read from the packet and the buffers they size ----
\* A decoder's outcome is its result and the buffers it asked for on the way:
\* the field that sized each Vec::with_capacity and the number of elements.
MAX_PEAK_COUNT == 10000000
MAX_SUBSEGMENTS == 100000
MAX_WORD_COUNT == 10000000
MAX_PROFILE_CHUNKS == 1000000
MAX_PROFILE_BINS == 100000000
Sized(field, n) == [by |-> field, n |-> n]
Outcome(r, allocs) == [r |-> r, allocs |-> allocs]

\* decode_centroid: the count, the sanity check, the two buffers, the slice.
decode_centroid(pk) ==
    IF ~pk.has_count THEN Outcome(Err(EndOfData), << >>)
    ELSE IF pk.count > MAX_PEAK_COUNT
    THEN Outcome(Err(ScanDecodeError(0)), << >>)
    ELSE IF pk.count = 0 THEN Outcome(Ok(0), << >>)
    ELSE LET allocs == <<Sized("count", pk.count), Sized("count", pk.count)>>
         IN  IF pk.count > pk.present THEN Outcome(Err(EndOfData), allocs)
             ELSE Outcome(Ok(pk.count), allocs)

\* decode_profile: peak_count and nbins_total, the sanity check, two buffers
\* of nbins_total, then the chunks (each: its bin count, then the slice).
RECURSIVE ProfileChunks(_, _, _)
ProfileChunks(pk, i, read) ==
    IF i > pk.peak_count THEN Ok(read)
    ELSE IF i > Len(pk.chunks) THEN Err(EndOfData)
    ELSE IF ~pk.chunks[i].complete THEN Err(EndOfData)
    ELSE ProfileChunks(pk, i + 1, read + pk.chunks[i].nbins)
decode_profile(pk) ==
    IF pk.peak_count = 0 \/ pk.nbins_total = 0 THEN Outcome(Ok(0), << >>)
    ELSE IF pk.peak_count > MAX_PROFILE_CHUNKS \/ pk.nbins_total > MAX_PROFILE_BINS
    THEN Outcome(Err(ScanDecodeError(0)), << >>)
    ELSE Outcome(ProfileChunks(pk, 1, 0),
                 <<Sized("nbins_total", pk.nbins_total),
                   Sized("nbins_total", pk.nbins_total)>>)

\* decode_ftlt_profile (one segment): Vec::new, the subsegment count and its
\* check, then per subsegment the word count, its check and the words.
RECURSIVE Subsegments(_, _, _)
Subsegments(pk, i, read) ==
    IF i > pk.num_subsegments THEN Ok(read)
    ELSE IF i > Len(pk.subsegments) THEN Err(EndOfData)
    ELSE IF pk.subsegments[i].word_count > MAX_WORD_COUNT
    THEN Err(CorruptedData("FT/LT profile: unreasonable word count"))
    ELSE IF ~pk.subsegments[i].complete THEN Err(EndOfData)
    ELSE Subsegments(pk, i + 1, read + pk.subsegments[i].word_count)
decode_ftlt_profile(pk) ==
    IF pk.num_segments = 0 THEN Outcome(Ok(0), << >>)
    ELSE IF pk.num_subsegments > MAX_SUBSEGMENTS
    THEN Outcome(Err(CorruptedData("FT/LT profile: unreasonable subsegment count")), << >>)
    ELSE Outcome(Subsegments(pk, 1, 0), << >>)

\* decode_ftlt_centroids (at most one segment): two buffers sized from the
\* header's num_centroid_words, then the segment's peak count and its check.
decode_ftlt_centroids(pk) ==
    LET estimated_peaks == IF pk.accurate THEN pk.num_centroid_words \div 3
                           ELSE pk.num_centroid_words \div 2
        allocs == <<Sized("num_centroid_words", estimated_peaks),
                    Sized("num_centroid_words", estimated_peaks)>>
    IN  IF pk.num_segments = 0 THEN Outcome(Ok(0), allocs)
        ELSE IF ~pk.has_count THEN Outcome(Err(EndOfData), allocs)
        ELSE IF pk.count > MAX_PEAK_COUNT
        THEN Outcome(Err(CorruptedData("FT/LT centroid: unreasonable peak count")), allocs)
        ELSE IF pk.count > pk.present THEN Outcome(Err(EndOfData), allocs)
        ELSE Outcome(Ok(pk.count), allocs)

decode_packet(pk) ==
    CASE pk.decoder = "decode_centroid" -> decode_centroid(pk)
      [] pk.decoder = "decode_profile" -> decode_profile(pk)
      [] pk.decoder = "decode_ftlt_profile" -> decode_ftlt_profile(pk)
      [] pk.decoder = "decode_ftlt_centroids" -> decode_ftlt_centroids(pk)

\* Counts as a packet can hold them: small ones, each limit and the value
\* after it, and a value near the top of u32.
PacketCounts == {0, 1, 2, 100000, 100001, 1000000, 1000001,
                 10000000, 10000001, 100000000, 100000001, 2000000000}
MaxPresent == 2
\* The chunks or subsegments the buffer holds after the counts: none, or one
\* with its own count, complete or cut short.
Pieces ==
    {<< >>} \cup {<<[nbins |-> n, word_count |-> n, complete |-> c]>> :
                    n \in {1, 10000001}, c \in BOOLEAN}
Packets ==
    {[decoder |-> "decode_centroid", has_count |-> h, count |-> c, present |-> a] :
        h \in BOOLEAN, c \in PacketCounts, a \in 0..MaxPresent}
    \cup {[decoder |-> "decode_profile", peak_count |-> c, nbins_total |-> b,
           chunks |-> ch] :
            c \in PacketCounts, b \in PacketCounts, ch \in Pieces}
    \cup {[decoder |-> "decode_ftlt_profile", num_segments |-> g,
           num_subsegments |-> c, subsegments |-> ss] :
            g \in {0, 1}, c \in PacketCounts, ss \in Pieces}
    \cup {[decoder |-> "decode_ftlt_centroids", num_segments |-> g,
           num_centroid_words |-> w, accurate |-> acc, has_count |-> h,
           count |-> c, present |-> a] :
            g \in {0, 1}, w \in PacketCounts, acc \in BOOLEAN, h \in BOOLEAN,
            c \in {0, 2, 10000001}, a \in 0..MaxPresent}
PacketArgs == {[fn |-> "decode_packet", pk |-> x] : x \in Packets}

CentroidArgs ==
    {[fn |-> "decode_centroids_only", h |-> h, entry |-> e] :
        h \in DecodeFiles, e \in DecodeEntries}
FnArgs ==
    DecodeArgs \cup CentroidArgs \cup PacketArgs \cup SumArgs \cup AddressArgs \cup StrictArgs \cup TrailerArgs \cup EnrichArgs \cup IsMs1Args \cup LayoutArgs
        \cup {a \in StrideArgs : SameStride(a)}

NotApplied == [tag |-> "none"]
Applied(r) == [tag |-> "returned", r |-> r]

InitFn ==
    /\ GuiIdle
    /\ arg \in FnArgs
    /\ out = NotApplied
    /\ file = << >>
    /\ XicIdle
    /\ OnceIdle
    /\ OpenIdle
    /\ ReaderIdle

DecodeScan ==
    /\ arg.fn = "decode_scan"
    /\ out = NotApplied
    /\ out' = Applied(decode_scan(arg.h, arg.entry, arg.scan_number))
    /\ UNCHANGED arg
    /\ UNCHANGED notFnVars

EnrichScan ==
    /\ arg.fn = "enrich_scan"
    /\ out = NotApplied
    /\ out' = Applied(enrich_scan(arg.f, arg.scan, arg.i))
    /\ UNCHANGED arg
    /\ UNCHANGED notFnVars

IsMs1Scan ==
    /\ arg.fn = "is_ms1_scan"
    /\ out = NotApplied
    /\ out' = Applied(is_ms1_scan(arg.f, arg.i))
    /\ UNCHANGED arg
    /\ UNCHANGED notFnVars

FromHeader ==
    /\ arg.fn = "from_header"
    /\ out = NotApplied
    /\ out' = Applied(from_header(arg.header))
    /\ UNCHANGED arg
    /\ UNCHANGED notFnVars

DetectEntrySize ==
    /\ arg.fn = "detect_entry_size"
    /\ out = NotApplied
    /\ out' = Applied(detect_entry_size(arg.documented, arg.rts_documented,
                                        arg.rts_72, arg.n_scans))
    /\ UNCHANGED arg
    /\ UNCHANGED notFnVars

DecodeCentroidsOnly ==
    /\ arg.fn = "decode_centroids_only"
    /\ out = NotApplied
    /\ out' = Applied(decode_centroids_only(arg.h, arg.entry))
    /\ UNCHANGED arg
    /\ UNCHANGED notFnVars

TrailerExtra ==
    /\ arg.fn = "trailer_extra"
    /\ out = NotApplied
    /\ out' = Applied(trailer_extra(arg.f, arg.scan_number))
    /\ UNCHANGED arg
    /\ UNCHANGED notFnVars

HasValidControllersStrict ==
    /\ arg.fn = "has_valid_controllers_strict"
    /\ out = NotApplied
    /\ out' = Applied(has_valid_controllers_strict(arg.info, arg.file_size))
    /\ UNCHANGED arg
    /\ UNCHANGED notFnVars

ParseRunHeaderV64 ==
    /\ arg.fn = "RunHeader_parse"
    /\ out = NotApplied
    /\ out' = Applied(RunHeader_parse_v64(arg.data, arg.offset, arg.version))
    /\ UNCHANGED arg
    /\ UNCHANGED notFnVars

SumCentroidsMultiTarget ==
    /\ arg.fn = "sum_centroids_multi_target"
    /\ out = NotApplied
    /\ out' = Applied(sum_centroids_multi_target(arg.peaks, arg.ranges))
    /\ UNCHANGED arg
    /\ UNCHANGED notFnVars

DecodePacket ==
    /\ arg.fn = "decode_packet"
    /\ out = NotApplied
    /\ out' = Applied(decode_packet(arg.pk))
    /\ UNCHANGED arg
    /\ UNCHANGED notFnVars

NextFn ==
    \/ DecodeScan
    \/ DecodePacket
    \/ SumCentroidsMultiTarget
    \/ ParseRunHeaderV64
    \/ HasValidControllersStrict
    \/ TrailerExtra
    \/ DecodeCentroidsOnly
    \/ DetectEntrySize
    \/ FromHeader
    \/ EnrichScan
    \/ IsMs1Scan

SpecFn == InitFn /\ [][NextFn]_vars

Decoded == arg.fn = "decode_scan" /\ out.tag = "returned"
EmptyEntry == arg.entry.number_packets = 0 /\ arg.entry.data_size = 0
EmptyScanOf(e, r) ==
    /\ r.ok
    /\ r.v.centroid_mz = << >>
    /\ r.v.centroid_intensity = << >>
    /\ r.v.rt = e.rt
    /\ r.v.tic = e.tic
    /\ r.v.base_peak_mz = e.base_peak_mz
    /\ r.v.base_peak_intensity = e.base_peak_intensity
\* The bounds test at the head of decode_scan.
BeyondFile(h, e) ==
    \/ e.data_size > 0 /\ h.data_addr + e.offset + e.data_size > h.data_len
    \/ e.data_size = 0 /\ h.data_addr + e.offset >= h.data_len

\* C13: decoding any scan whose index entry has packet count 0 and packet
\* size 0 succeeds with empty centroid arrays, and the returned TIC,
\* base-peak m/z and base-peak intensity are those of the index entry.
C13_EmptyScan ==
    (Decoded /\ EmptyEntry) => EmptyScanOf(arg.entry, out.r)

\* What the code does for an empty entry: the empty scan when its offset is
\* inside the file, a ScanDecodeError when it is at or after the end.
C13_EmptyScanInsideFile ==
    (Decoded /\ EmptyEntry) =>
        IF BeyondFile(arg.h, arg.entry)
        THEN out.r = Err(ScanDecodeError(arg.h.data_addr + arg.entry.offset))
        ELSE EmptyScanOf(arg.entry, out.r)

\* An empty entry whose offset is the file length is refused.
C13_Refused ==
    /\ Decoded
    /\ EmptyEntry
    /\ arg.h.data_addr + arg.entry.offset = arg.h.data_len
    /\ ~out.r.ok

UnknownPacketType == ~IsFtlt(PacketTypeId(arg.entry)) /\ ~IsLegacy(PacketTypeId(arg.entry))

-----------------------------------------------------------------------------
\* C15: for any opened file and any target m/z, an XIC computed with a ppm
\* tolerance of 0 has intensity 0 at every point.
C15_ZeroTolerance ==
    (Returned /\ call.op \in SingleOps /\ call.targets[1].ppm = 0) =>
        \A j \in 1..Len(ret.chroms[1].intensity) :
            ret.chroms[1].intensity[j] = 0

\* With tolerance 0 the window is the closed interval [mz, mz]: a centroid
\* exactly at the target is summed.
C15_ExactCentroidCounted ==
    /\ Returned
    /\ call.op = "xic"
    /\ call.targets[1] = Target(MZ_200, 0)
    /\ \E j \in 1..Len(ret.chroms[1].intensity) : ret.chroms[1].intensity[j] = 100


NonDecreasing(s) == \A a, b \in 1..Len(s) : a < b => s[a] <= s[b]
RtOf(f) == [j \in 1..Len(f.scan_index) |-> f.scan_index[j].rt]
\* The same column in thousandths of a minute.
RtMilliOf(f) == [j \in 1..Len(f.scan_index) |-> 1000 * f.scan_index[j].rt]

\* C16: every chromatogram returned by tic, bpc, xic, xic_ms1 and
\* xic_batch_ms1 on an opened file has rt and intensity arrays of equal
\* length and a non-decreasing rt array.
C16_ChromatogramShape ==
    (Returned /\ call.op \in {"tic", "bpc", "xic", "xic_ms1", "xic_batch_ms1"}) =>
        \A k \in 1..Len(ret.chroms) :
            /\ Len(ret.chroms[k].rt) = Len(ret.chroms[k].intensity)
            /\ NonDecreasing(ret.chroms[k].rt)

\* The part of C16 that holds: equal lengths, and rt is the index entries'
\* retention times in index order.
C16_EqualLengths ==
    (Returned /\ call.op \in {"tic", "bpc", "xic", "xic_ms1", "xic_batch_ms1"}) =>
        \A k \in 1..Len(ret.chroms) :
            /\ Len(ret.chroms[k].rt) = Len(ret.chroms[k].intensity)
            /\ \A j \in 1..Len(ret.chroms[k].rt) :
                   ret.chroms[k].rt[j] = file.scan_index[ret.chroms[k].src[j]].rt

\* A file of 72-byte entries whose retention times go down is opened with
\* those entries, and tic returns them as they are.
C16_DecreasingRt ==
    /\ Returned
    /\ call.op = "tic"
    /\ ~NonDecreasing(RtOf(file))
    /\ detect_entry_size(72, RtMilliOf(file), RtMilliOf(file), Len(file.scan_index)) = 72
    /\ ret.chroms[1].rt = RtOf(file)


-----------------------------------------------------------------------------
Enriched == arg.fn = "enrich_scan" /\ out.tag = "returned"
\* Tier 1 applies: the trailer has a non-empty Filter Text.
HasFilterText == FilterTextOf(arg.f, arg.i).some /\ FilterTextOf(arg.f, arg.i).v # << >>
\* The scan event of the scan, when there is one.
EventOf(f, i) ==
    IF f.scan_index[i].scan_event + 1 <= Len(f.scan_events)
    THEN Some(f.scan_events[f.scan_index[i].scan_event + 1]) ELSE None

\* C18: enrichment applies the first applicable of three tiers: (1) a
\* non-empty trailer Filter Text determines MS level and polarity; (2)
\* otherwise a non-zero Master Scan Number makes the scan MS2 with its
\* precursor built from trailer fields; (3) otherwise, which includes a
\* Master Scan Number that is zero or unreadable, MS level and polarity are
\* those of the scan-event preamble.
C18_ThreeTiers ==
    Enriched =>
        LET master == MasterOf(arg.f, arg.i)
            rec == arg.f.scan_index[arg.i].trailer
            event == EventOf(arg.f, arg.i)
        IN  IF HasFilterText
            THEN LET filter == parse_filter(FilterTextOf(arg.f, arg.i).v)
                 IN  /\ out.r.ms_level = filter.ms_level
                     /\ out.r.polarity = filter.polarity
            ELSE IF master.some /\ master.v # 0
            THEN /\ out.r.ms_level = "Ms2"
                 /\ out.r.precursor = build_precursor_info_from_trailer(rec)
            ELSE event.some =>
                     /\ out.r.ms_level = event.v.preamble.ms_level
                     /\ out.r.polarity = event.v.preamble.polarity

\* The tiers as the code has them: a readable Master Scan Number is the
\* second tier whatever its value (positive: MS2 with the trailer precursor;
\* zero or negative: the scan is left as decoded), and the scan event is
\* consulted only when the Master Scan Number cannot be read.
C18_TiersAsCoded ==
    Enriched =>
        LET master == MasterOf(arg.f, arg.i)
            rec == arg.f.scan_index[arg.i].trailer
            event == EventOf(arg.f, arg.i)
        IN  IF HasFilterText
            THEN LET filter == parse_filter(FilterTextOf(arg.f, arg.i).v)
                 IN  /\ out.r.ms_level = filter.ms_level
                     /\ out.r.polarity = filter.polarity
            ELSE IF master.some /\ master.v > 0
            THEN /\ out.r.ms_level = "Ms2"
                 /\ out.r.precursor = build_precursor_info_from_trailer(rec)
            ELSE IF master.some
            THEN out.r = arg.scan
            ELSE IF event.some
            THEN /\ out.r.ms_level = event.v.preamble.ms_level
                 /\ out.r.polarity = event.v.preamble.polarity
            ELSE out.r = arg.scan

\* Master Scan Number 0, no filter text, a scan event of positive polarity:
\* the scan keeps the polarity Unknown.
C18_MasterZeroStops ==
    /\ Enriched
    /\ ~HasFilterText
    /\ MasterOf(arg.f, arg.i) = Some(0)
    /\ EventOf(arg.f, arg.i).some
    /\ EventOf(arg.f, arg.i).v.preamble.polarity = "Positive"
    /\ out.r.polarity = "Unknown"

-----------------------------------------------------------------------------
Classified == arg.fn = "is_ms1_scan" /\ out.tag = "returned"
FilterSaysMs1(str) ==
    \/ Contains(str, STR_SP_MS_SP)
    \/ StartsWith(str, STR_MS_SP)
    \/ Contains(str, STR_SP_FULL_MS)

-----------------------------------------------------------------------------
LaidOut == arg.fn = "from_header" /\ out.tag = "returned"

\* C20: for every opened file that has a trailer layout and N scans, each
\* field i satisfies field_offset[i] + field_width[i] <= record_size, where
\* record_size is the sum of all field widths, and the records region fits
\* in the file: records_offset + N * record_size <= file size.
C20_TrailerBounds ==
    LaidOut =>
        LET ds == arg.header.descriptors
        IN  /\ out.r.record_size = SumWidths(ds, Len(ds))
            /\ \A k \in 1..Len(ds) :
                   out.r.field_offsets[k] + field_byte_size(ds[k]) <= out.r.record_size
            /\ out.r.header.records_offset + arg.n_scans * out.r.record_size
                   <= arg.data_len

\* The half of C20 that from_header establishes: the offsets are the running
\* sums of the widths and every field ends inside the record.
C20_FieldOffsets ==
    LaidOut =>
        LET ds == arg.header.descriptors
        IN  /\ out.r.record_size = SumWidths(ds, Len(ds))
            /\ \A k \in 1..Len(ds) :
                   out.r.field_offsets[k] + field_byte_size(ds[k]) <= out.r.record_size

\* Two records of 8 bytes from offset 60 of a 64-byte file: the layout is
\* built and the second record lies beyond the file.
C20_RecordsBeyondFile ==
    /\ LaidOut
    /\ out.r.record_size = 8
    /\ arg.header.records_offset = 60
    /\ arg.n_scans = 2
    /\ field_offset(out.r, 1, 0) >= arg.data_len


\* ======================================================================
\* scans_parallel: the scans of a range, decoded and enriched in parallel.
\* ======================================================================
\* The call is (start..end), a half-open Range<u32>.  Its first step, on the
\* calling thread, turns the range into the list of (entry, scan number,
\* index) it will decode; the parallel map then works on that list.

RangeOf(c) == c.start..(c.end - 1)
\* n - first on u32: below first the subtraction overflows.
Underflows(f, c) == \E n \in RangeOf(c) : n < AsUsize(f.run_header.first_scan)

\* range.map(|n| (n - first, n)).filter_map(|(idx, n)| scan_index.get(idx)):
\* the numbers of the range that have an index entry, ascending.  A number
\* below first wraps to an index beyond the scan index and is dropped.
EntriesOf(f, c) ==
    LET first == AsUsize(f.run_header.first_scan)
        all == [k \in 1..(IF c.end > c.start THEN c.end - c.start ELSE 0) |->
                    [n |-> c.start + k - 1, idx |-> c.start + k - 1 - first]]
        Present(x) == x.idx >= 0 /\ x.idx < Len(f.scan_index)
    IN  SelectSeq(all, Present)

\* The closure of the parallel map for one element of the list.
scans_parallel_closure(f, x) ==
    LET decoded == decode_scan(f, f.scan_index[x.idx + 1], U32Of(x.n))
    IN  IF decoded.ok THEN Ok(enrich_scan(f, decoded.v, x.idx + 1)) ELSE decoded

Ranges == {[start |-> s, end |-> e] : s \in 0..MaxScans, e \in 0..(MaxScans + 1)}
\* Overflow checks are on in a debug build and off in a release build.
Profiles == {"debug", "release"}
ScanCalls ==
    {[op |-> "scans_parallel", targets |-> << >>, start |-> r.start, end |-> r.end,
      profile |-> p, stage |-> "entries", entries |-> << >>] :
        r \in Ranges, p \in Profiles}

InitScans ==
    /\ GuiIdle
    /\ file \in Files
    /\ call \in ScanCalls
    /\ pending = {}
    /\ running = [w \in Workers |-> 0]
    /\ slots = <<>>
    /\ finished = <<>>
    /\ counter0 = 0
    /\ counter = 0
    /\ ret = [tag |-> "none", chroms |-> <<>>]
    /\ OnceIdle
    /\ OpenIdle
    /\ ReaderIdle
    /\ FnIdle

\* The sequential head of scans_parallel.
CollectEntries ==
    /\ ret.tag = "none"
    /\ call.op = "scans_parallel"
    /\ call.stage = "entries"
    /\ IF call.profile = "debug" /\ Underflows(file, call)
       THEN /\ ret' = [tag |-> "panic", chroms |-> <<>>]
            /\ UNCHANGED <<call, pending>>
       ELSE /\ call' = [call EXCEPT !.stage = "map", !.entries = EntriesOf(file, call)]
            /\ pending' = 1..Len(EntriesOf(file, call))
            /\ UNCHANGED ret
    /\ UNCHANGED <<file, running, slots, finished, counter, counter0>>
    /\ UNCHANGED notXicVars

\* Worker w decodes and enriches the element it took.
FinishScan(w) ==
    /\ ret.tag = "none"
    /\ call.op = "scans_parallel"
    /\ running[w] # 0
    /\ slots' = Store(running[w], scans_parallel_closure(file, call.entries[running[w]]))
    /\ finished' = Append(finished, running[w])
    /\ running' = [running EXCEPT ![w] = 0]
    /\ UNCHANGED <<file, call, pending, counter, counter0, ret>>
    /\ UNCHANGED notXicVars

\* collect::<Result<Vec<Scan>, _>>(): every element Ok gives the scans in
\* list order.
ReturnScans ==
    /\ ret.tag = "none"
    /\ call.op = "scans_parallel"
    /\ call.stage = "map"
    /\ AllCollected
    /\ \A i \in DOMAIN slots : slots[i].ok
    /\ ret' = [tag |-> "Ok", chroms |-> <<>>,
               scans |-> [i \in 1..Len(call.entries) |-> slots[i].v]]
    /\ UNCHANGED <<file, call, pending, running, slots, finished, counter, counter0>>
    /\ UNCHANGED notXicVars

\* An element that failed makes the whole call fail with its error; the
\* collect stops early, and which of several errors it reports is not fixed.
ReturnScansErr ==
    /\ ret.tag = "none"
    /\ call.op = "scans_parallel"
    /\ call.stage = "map"
    /\ \E i \in DOMAIN slots :
          /\ ~slots[i].ok
          /\ ret' = [tag |-> "Err", chroms |-> <<>>, error |-> slots[i].e]
    /\ UNCHANGED <<file, call, pending, running, slots, finished, counter, counter0>>
    /\ UNCHANGED notXicVars

NextScans ==
    \/ CollectEntries
    \/ \E w \in Workers : \E i \in 1..MaxScans : StartScan(w, i)
    \/ \E w \in Workers : FinishScan(w)
    \/ ReturnScans
    \/ ReturnScansErr

SpecScans == InitScans /\ [][NextScans]_vars

ScansReturned == call.op = "scans_parallel" /\ ret.tag # "none"

\* C17: reading a range of scans returns exactly one decoded scan for every
\* scan number of the requested range, both ends included, in ascending
\* scan-number order, each equal to what scan(n) returns for that number.
C17_RangeOfScans ==
    (ScansReturned /\ call.start <= call.end) =>
        /\ ret.tag = "Ok"
        /\ Len(ret.scans) = call.end - call.start + 1
        /\ \A k \in 1..Len(ret.scans) :
               Ok(ret.scans[k]) = scan(file, U32Of(call.start + k - 1))

\* What scans_parallel returns: when it returns Ok, one scan for every number
\* of start..end (end excluded) that the file has, ascending, each the value
\* of scan(n); numbers the file does not have are left out; when any of those
\* scans fails to decode, the whole call is that scan's error.
C17_AsCoded ==
    ScansReturned =>
        LET first == AsUsize(file.run_header.first_scan)
            had == {n \in RangeOf(call) : first <= n /\ n < first + Len(file.scan_index)}
        IN  /\ ret.tag = "Ok" =>
                /\ Len(ret.scans) = Cardinality(had)
                /\ \A k \in 1..Len(ret.scans) :
                       /\ ret.scans[k].scan_number = U32Of(SetMin(had) + k - 1)
                       /\ Ok(ret.scans[k]) = scan(file, ret.scans[k].scan_number)
            /\ ret.tag = "Err" =>
                \E n \in had : scan(file, U32Of(n)) = Err(ret.error)
            /\ ret.tag = "panic" => (call.profile = "debug" /\ Underflows(file, call))

\* Scans 1 and 2 asked for, scan 2 does not decode: no scan is returned.
C17_OneFailureFailsAll ==
    /\ ScansReturned
    /\ call.start = 1 /\ call.end = 3
    /\ Len(file.scan_index) = 2
    /\ scan(file, U32Of(1)).ok
    /\ ~scan(file, U32Of(2)).ok
    /\ ret.tag = "Err"


-----------------------------------------------------------------------------
\* C21: open on an arbitrary byte buffer always ends with a handle or a
\* RawError; no parsing stage indexes the buffer out of bounds or panics,
\* the backward search for the generic data header with a scan-index address
\* beyond the end of the buffer included.
C21_OpenNeverPanics ==
    opc = "done" => result.tag \in {"ok", "err"}

\* A run header with no scans whose scan-index address lies beyond the
\* buffer: the scan index parses as empty and the backward search reads
\* data[pos..pos + 4] past the end.
C21_SearchBeyondBuffer ==
    /\ opc = "done"
    /\ result = [tag |-> "panic", at |-> "trailer_layout"]
    /\ run_header.scan_index_addr > data.len
    /\ n_scans = U32Zero


\* ---- C22 ----
Detected == arg.fn = "detect_entry_size" /\ out.tag = "returned"
\* The check as the specification words it: the first min(N, 5) records are
\* there, in (-0.1, 1440] and non-decreasing.
DocumentedCheck(rts, n) ==
    \A i \in 1..Min2(n, 5) :
        /\ i <= Len(rts)
        /\ rts[i] > -100 /\ rts[i] <= 1440000
        /\ (i > 1 => rts[i] >= rts[i - 1])
\* The check as the parser makes it: the bound -0.1 included, and a step down
\* of at most 0.001 let through.
TolerantCheck(rts, n) ==
    \A i \in 1..Min2(n, 5) :
        /\ i <= Len(rts)
        /\ rts[i] >= -100 /\ rts[i] <= 1440000
        /\ (i > 1 => rts[i] + 1 >= rts[i - 1])

C22_TwoScansUnchecked ==
    /\ Detected
    /\ arg.n_scans = 2
    /\ arg.rts_documented = <<5000, 1000>>
    /\ out.r = arg.documented


\* ---- C23 ----
CentroidsDecoded == arg.fn = "decode_centroids_only" /\ out.tag = "returned"
\* The full decode of the same entry of the same file (scan number 1).
FullDecode == decode_scan(arg.h, arg.entry, 1)
MzOf(peaks) == [i \in DOMAIN peaks |-> peaks[i].mz]
IntensityOf(peaks) == [i \in DOMAIN peaks |-> peaks[i].int]

\* C23: whenever the full scan decode succeeds for an entry,
\* decode_centroids_only also succeeds and returns exactly the centroid m/z
\* and intensity arrays of the fully decoded scan.
C23_CentroidsRefineScan ==
    (CentroidsDecoded /\ FullDecode.ok) =>
        /\ ~out.r.err
        /\ MzOf(out.r.peaks) = FullDecode.v.centroid_mz
        /\ IntensityOf(out.r.peaks) = FullDecode.v.centroid_intensity

\* What holds of the two decoders: when both succeed the arrays are the same,
\* and the fast path fails only on a packet whose header reads and whose peak
\* list does not, or whose header does not read.
C23_AgreeWhenBothSucceed ==
    CentroidsDecoded =>
        /\ ((FullDecode.ok /\ ~out.r.err) =>
                /\ MzOf(out.r.peaks) = FullDecode.v.centroid_mz
                /\ IntensityOf(out.r.peaks) = FullDecode.v.centroid_intensity)
        /\ (out.r.err => arg.entry.packet # "ok")

\* An FT packet inside the file whose peak list cannot be read: the full
\* decode returns a scan with empty centroids, the fast path an error.
C23_SwallowedPeakError ==
    /\ CentroidsDecoded
    /\ arg.entry.packet = "bad_peaks"
    /\ PacketTypeId(arg.entry) = 21
    /\ FullDecode.ok
    /\ FullDecode.v.centroid_mz = << >>
    /\ out.r.err

\* ---- C24 ----
\* The level scan(n) reports for the scan that is_ms1_scan classified: the
\* level enrich_scan gives the decoded scan.
ReportedLevel == enrich_scan(arg.f, ScanOf(1, arg.f.scan_index[arg.i], << >>), arg.i).ms_level

\* C24: a scan contributes a point to xic_ms1 and xic_batch_ms1 if and only
\* if scan(n) reports ms_level = Ms1: the MS1 fast-path check and the
\* enrichment never disagree.
C24_FastPathAgreesWithScan ==
    Classified => (out.r <=> ReportedLevel = "Ms1")

\* Master Scan Number 0 with a filter text that says ms2: the fast path
\* counts the scan as MS1, scan(n) reports Ms2.
C24_Ms1PointForMs2Scan ==
    /\ Classified
    /\ MasterOf(arg.f, arg.i) = Some(0)
    /\ FilterTextOf(arg.f, arg.i) = Some(FILTER_MS2)
    /\ out.r = TRUE
    /\ ReportedLevel = "Ms2"

\* Without a trailer layout the fast path says MS1 and the scan event decides
\* the level scan(n) reports.
C24_NoLayoutScanEventMs2 ==
    /\ Classified
    /\ ~arg.f.trailer_layout.present
    /\ out.r = TRUE
    /\ ReportedLevel = "Ms2"


\* ---- C25 ----
TrailerRead == arg.fn = "trailer_extra" /\ out.tag = "returned"
\* last_scan = first_scan + n_scans - 1; the numbers explored are small.
FirstScanOf(f) == AsUsize(f.run_header.first_scan)
LastScanOf(f) == FirstScanOf(f) + f.n_scans - 1
OutsideScans == AsUsize(arg.scan_number) < FirstScanOf(arg.f)
                    \/ AsUsize(arg.scan_number) > LastScanOf(arg.f)
\* The end of the last scan's trailer record.
RecordsEnd(f) ==
    LET h == f.trailer_layout.v.header
    IN  h.records_offset + f.n_scans * SumWidths(h.descriptors, Len(h.descriptors))

\* C25: trailer_extra(n) returns ScanOutOfRange(n) for every n outside
\* [first_scan, last_scan], above as well as below, and never returns a map
\* decoded from bytes past the last scan's trailer record.
C25_TrailerExtraInRange ==
    TrailerRead =>
        /\ (OutsideScans => out.r = Err(ScanOutOfRange(arg.scan_number)))
        /\ (out.r.ok => out.r.v.from + out.r.v.size <= RecordsEnd(arg.f))

\* What holds of trailer_extra: without a layout the answer is StreamNotFound
\* whatever n; with one, a number below first_scan is ScanOutOfRange and any
\* other number reads the record at n - first_scan.
C25_LowerBoundOnly ==
    TrailerRead =>
        IF ~arg.f.trailer_layout.some
        THEN out.r = Err(StreamNotFound("trailer extra"))
        ELSE IF AsUsize(arg.scan_number) < FirstScanOf(arg.f)
        THEN out.r = Err(ScanOutOfRange(arg.scan_number))
        ELSE out.r = parse_trailer_extra(arg.f.data_len, arg.f.trailer_layout.v.header,
                         AsUsize(arg.scan_number) - FirstScanOf(arg.f))

\* A number above last_scan whose would-be record lies inside the file: a
\* map decoded from the bytes after the last record.
C25_ReadsPastLastRecord ==
    /\ TrailerRead
    /\ arg.f.trailer_layout.some
    /\ AsUsize(arg.scan_number) = LastScanOf(arg.f) + 1
    /\ out.r.ok
    /\ out.r.v.size > 0
    /\ out.r.v.from >= RecordsEnd(arg.f)


\* ---- C26 ----
StrictChecked == arg.fn = "has_valid_controllers_strict" /\ out.tag = "returned"
DeclaredOf(info) == 1..info.n_controllers
BeyondDeclared(info) == (info.n_controllers + 1)..Len(info.controllers)

\* C26: a RawFileInfo candidate passes strict validation only if every
\* declared controller has device type in 0..5, device index in 0..7 and
\* offset in (4096, file_size), and every VCI entry beyond the declared count
\* is all zero.
C26_StrictValidation ==
    (StrictChecked /\ out.r) =>
        /\ \A i \in DeclaredOf(arg.info) :
               /\ arg.info.controllers[i].device_type \in 0..5
               /\ arg.info.controllers[i].device_index \in 0..7
               /\ arg.info.controllers[i].offset > 4096
               /\ arg.info.controllers[i].offset < arg.file_size
        /\ \A i \in BeyondDeclared(arg.info) :
               arg.info.controllers[i] = ZeroCtl

\* What a candidate that passes does satisfy: a valid date, at most 16
\* declared controllers, each with device type in 0..5 and offset in
\* (4096, file_size), and zero entries in the four places after the declared
\* ones (the first sixteen places when none is declared).
C26_StrictAsCoded ==
    (StrictChecked /\ out.r) =>
        LET n == arg.info.n_controllers
        IN  /\ has_valid_date(arg.info)
            /\ n <= 16
            /\ \A i \in DeclaredOf(arg.info) :
                   /\ arg.info.controllers[i].device_type \in 0..5
                   /\ arg.info.controllers[i].offset > 4096
                   /\ arg.info.controllers[i].offset < arg.file_size
            /\ \A i \in (n + 1)..(IF n = 0 THEN 16 ELSE n + 4) :
                   arg.info.controllers[i] = ZeroCtl

\* A candidate whose declared controller has device index 9 passes.
C26_DeviceIndexUnchecked ==
    /\ StrictChecked
    /\ out.r
    /\ arg.info.n_controllers = 1
    /\ arg.info.controllers[1].device_index = 9

\* A candidate with a non-zero entry five places after its declared
\* controllers passes.
C26_TailUnchecked ==
    /\ StrictChecked
    /\ out.r
    /\ arg.info.n_controllers = 2
    /\ arg.info.controllers[7] # ZeroCtl


\* ---- C27 ----
RunHeaderParsed == arg.fn = "RunHeader_parse" /\ out.tag = "returned"
SearchStart == arg.offset + SAMPLE_INFO_SIZE
\* The two ways a block at b can be anchored.
FifthIsSelf(b) ==
    /\ U64Is(U64At(arg.data, b + 32), arg.offset)
    /\ InsideFile(U64At(arg.data, b), arg.data.len)
    /\ InsideFile(U64At(arg.data, b + 8), arg.data.len)
VciIsSelf(b) ==
    /\ U64Is(U64At(arg.data, b + 64), arg.offset)
    /\ WordAt(arg.data, b + 56) \in 0..5
    /\ WordAt(arg.data, b + 60) \in 0..7
WindowStarts ==
    {b \in SearchStart..(SearchStart + 8191) : (b - SearchStart) % 4 = 0}

\* C27: for version >= 64, whenever the run-header parser accepts an address
\* block, the block lies within 8 KiB after the search start and either its
\* fifth int64 equals the run header's own start offset and its first two
\* int64s both point inside the file, or the offset field of the 16-byte VCI
\* record following the block equals the run header's start offset and that
\* record's device type is in 0..5 and device index in 0..7; when no position
\* qualifies, parsing fails instead of using unvalidated addresses.
C27_AddressBlockValidated ==
    RunHeaderParsed =>
        /\ out.r.ok =>
               /\ out.r.v.block >= SearchStart
               /\ out.r.v.block < SearchStart + 8192
               /\ FifthIsSelf(out.r.v.block) \/ VciIsSelf(out.r.v.block)
               /\ out.r.v.scan_index_addr = U64At(arg.data, out.r.v.block)
        /\ (\A b \in WindowStarts : ~FifthIsSelf(b) /\ ~VciIsSelf(b)) => ~out.r.ok

\* A block accepted through its VCI record: RunHeaderPos is zero in it.
C27_AcceptedByVci ==
    /\ RunHeaderParsed
    /\ out.r.ok
    /\ ~FifthIsSelf(out.r.v.block)
    /\ VciIsSelf(out.r.v.block)

\* A block accepted through RunHeaderPos at the last place the search reaches.
C27_AcceptedAtWindowEnd ==
    /\ RunHeaderParsed
    /\ out.r.ok
    /\ FifthIsSelf(out.r.v.block)
    /\ out.r.v.block = SearchStart + 8192 - 40

\* The run header's offset occurs in the window and no block around it
\* validates: the parse fails.
C27_RejectedHit ==
    /\ RunHeaderParsed
    /\ ~out.r.ok
    /\ \E b \in WindowStarts : U64Is(U64At(arg.data, b + 32), arg.offset)
    /\ \A b \in WindowStarts : ~FifthIsSelf(b) /\ ~VciIsSelf(b)


\* ---- C28 ----
Summed == arg.fn = "sum_centroids_multi_target" /\ out.tag = "returned"
\* The sum of the intensities of the peaks with low <= m/z <= high.
IntensityWithin(peaks, r) ==
    LET In(pk) == r.low <= pk.mz /\ pk.mz <= r.high
    IN  SeqSum([k \in 1..Len(SelectSeq(peaks, In)) |-> SelectSeq(peaks, In)[k].int])

\* C28: for centroid peaks sorted ascending by m/z and ranges sorted by low
\* bound (overlapping or nested allowed), sum_centroids_multi_target writes
\* to out[i] exactly what sum_centroids_in_range returns for ranges[i]: the
\* sum of the intensities of the peaks with low_i <= m/z <= high_i.
C28_MultiTargetEqualsSingle ==
    Summed =>
        /\ out.r.ok
        /\ Len(out.r.v) = Len(arg.ranges)
        /\ \A i \in 1..Len(arg.ranges) :
               /\ Ok(out.r.v[i]) = sum_centroids_in_range(arg.peaks,
                                       arg.ranges[i].low, arg.ranges[i].high)
               /\ out.r.v[i] = IntensityWithin(arg.peaks, arg.ranges[i])

\* A range nested in the one before it, with a peak above the inner range and
\* inside the outer one.
C28_NestedRanges ==
    /\ Summed
    /\ Len(arg.ranges) = 2
    /\ arg.ranges[1] = RangeOfMz(100, 400)
    /\ arg.ranges[2] = RangeOfMz(200, 300)
    /\ \E k \in 1..Len(arg.peaks) : arg.peaks[k].mz = 400
    /\ \E k \in 1..Len(arg.peaks) : arg.peaks[k].mz = 200
    /\ out.r.v[1] > out.r.v[2]
    /\ out.r.v[2] > 0


\* ---- C29 ----
PacketDecoded == arg.fn = "decode_packet" /\ out.tag = "returned"
\* The counts the decoder read from the packet before it returned, with the
\* limit of each: peak counts and word counts 10^7, subsegment counts 10^5.
OverLimit(pk) ==
    CASE pk.decoder = "decode_centroid" -> pk.has_count /\ pk.count > 10000000
      [] pk.decoder = "decode_profile" -> pk.peak_count > 10000000
      [] pk.decoder = "decode_ftlt_profile" ->
             pk.num_segments > 0 /\
             (pk.num_subsegments > 100000
                \/ (pk.num_subsegments >= 1 /\ pk.subsegments # << >>
                      /\ pk.subsegments[1].word_count > 10000000))
      [] pk.decoder = "decode_ftlt_centroids" ->
             \/ pk.num_centroid_words > 10000000
             \/ (pk.num_segments > 0 /\ pk.has_count /\ pk.count > 10000000)
\* The largest buffer a count within its limit can size.
LargestAllowed == 10000000

\* C29: every packet decoder rejects, before allocating any buffer sized by
\* it, a peak count above 10^7, a subsegment count above 10^5 or a word count
\* above 10^7 read from the packet.
C29_CountsRejectedBeforeAllocation ==
    (PacketDecoded /\ OverLimit(arg.pk)) =>
        /\ ~out.r.r.ok
        /\ \A k \in 1..Len(out.r.allocs) : out.r.allocs[k].n <= LargestAllowed

\* What holds of decode_centroid, decode_ftlt_profile and decode_profile: no
\* buffer is asked for when a count is over its limit, and the call fails,
\* except that decode_profile returns empty arrays for zero bins whatever the
\* chunk count; decode_profile sizes its buffers by at most 10^8 bins.
C29_ThreeDecodersAsCoded ==
    (PacketDecoded /\ arg.pk.decoder # "decode_ftlt_centroids") =>
        /\ OverLimit(arg.pk) =>
               /\ out.r.allocs = << >>
               /\ \/ ~out.r.r.ok
                  \/ (arg.pk.decoder = "decode_profile" /\ arg.pk.nbins_total = 0)
        /\ \A k \in 1..Len(out.r.allocs) : out.r.allocs[k].n <= MAX_PROFILE_BINS

\* An FT packet header announcing 2 * 10^9 centroid words: two buffers of
\* 10^9 elements are asked for before any peak count is read.
C29_CentroidWordsSizeBuffers ==
    /\ PacketDecoded
    /\ arg.pk.decoder = "decode_ftlt_centroids"
    /\ arg.pk.num_centroid_words = 2000000000
    /\ Len(out.r.allocs) = 2
    /\ out.r.allocs[1].n = 1000000000

-----------------------------------------------------------------------------
\* ---- thermo-raw-gui: start_conversion, spawn_conversion, cancel ----
MaxFiles == 3
\* A list entry; scan tells that a background scan of its path is under way.
FileEntry(status, has_scans, scanning) ==
    [status |-> status, n_scans |-> has_scans, scan |-> scanning]
\* Entries as add_paths and the background scan leave them.
NewEntries == {FileEntry("Scanning", FALSE, TRUE), FileEntry("Pending", TRUE, FALSE),
               FileEntry("Failed", FALSE, FALSE)}

InitGui ==
    /\ files \in [1..MaxFiles -> NewEntries]
    /\ output_dir \in {d \in BOOLEAN : (\E i \in 1..MaxFiles : files[i].n_scans) => d}
    /\ phase = "Idle"
    /\ cancel_flag = FALSE
    /\ convert_handle = FALSE
    /\ cancel = FALSE
    /\ thread = NoThread
    /\ cancelled_at = NotCancelled
    /\ file = << >>
    /\ XicIdle
    /\ OnceIdle
    /\ OpenIdle
    /\ ReaderIdle
    /\ FnIdle

\* The indices start_conversion collects, in list order.
Convertible(fs) ==
    LET Is(i) == fs[i].status = "Pending" /\ fs[i].n_scans
    IN  SelectSeq([i \in 1..Len(fs) |-> i], Is)
\* can_convert: what enables the Convert button.
can_convert ==
    /\ phase # "Converting"
    /\ output_dir
    /\ Convertible(files) # << >>

\* add_files_action or add_folder_action picks a path already listed:
\* add_paths skips it, scan_files_background scans it again. A folder
\* becomes the output directory when none is set.
AddListedPath ==
    /\ \E i \in 1..Len(files), folder \in BOOLEAN :
           /\ ~files[i].scan
           /\ files' = [files EXCEPT ![i].scan = TRUE]
           /\ output_dir' = (output_dir \/ folder)
    /\ UNCHANGED <<phase, cancel_flag, convert_handle, cancel, thread, cancelled_at>>
    /\ UNCHANGED notGuiVars

\* The result of a background scan is applied to the entry of its path,
\* whatever the entry's status: a scan count and Pending, or Failed.
ScanFinished ==
    /\ \E i \in 1..Len(files), readable \in BOOLEAN :
           /\ files[i].scan
           /\ files' = [files EXCEPT ![i] =
                            IF readable THEN FileEntry("Pending", TRUE, FALSE)
                            ELSE FileEntry("Failed", files[i].n_scans, FALSE)]
           /\ output_dir' = (output_dir \/ readable)
    /\ UNCHANGED <<phase, cancel_flag, convert_handle, cancel, thread, cancelled_at>>
    /\ UNCHANGED notGuiVars

\* change_output_dir: a folder is picked in the dialog.
ChangeOutputDir ==
    /\ ~output_dir
    /\ output_dir' = TRUE
    /\ UNCHANGED <<files, phase, cancel_flag, convert_handle, cancel, thread, cancelled_at>>
    /\ UNCHANGED notGuiVars

\* start_conversion: the convertible entries become Converting, a fresh
\* cancel flag is made and the worker thread is spawned with both.
start_conversion ==
    /\ can_convert
    /\ LET convertible == Convertible(files)
       IN  /\ files' = [i \in 1..Len(files) |->
                           IF \E k \in 1..Len(convertible) : convertible[k] = i
                           THEN [files[i] EXCEPT !.status = "Converting"]
                           ELSE files[i]]
           /\ thread' = [pc |-> "loop", files |-> convertible, next |-> 1,
                         results |-> << >>]
    /\ cancel' = FALSE
    /\ cancel_flag' = TRUE
    /\ convert_handle' = TRUE
    /\ phase' = "Converting"
    /\ cancelled_at' = NotCancelled
    /\ UNCHANGED output_dir
    /\ UNCHANGED notGuiVars

\* The head of the worker's loop: the next file of the list, unless the list
\* is exhausted or the cancel flag is set.
spawn_conversion_next ==
    /\ thread.pc = "loop"
    /\ thread' = [thread EXCEPT !.pc = IF thread.next > Len(thread.files) \/ cancel
                                      THEN "returned" ELSE "converting"]
    /\ UNCHANGED <<files, output_dir, phase, cancel_flag, convert_handle, cancel,
                   cancelled_at>>
    /\ UNCHANGED notGuiVars

\* convert_file_with_progress on the file taken: Ok, Err, or a panic that
\* ends the thread.
spawn_conversion_convert ==
    /\ thread.pc = "converting"
    /\ \E ended \in {"ok", "err", "panic"} :
           thread' = IF ended = "panic" THEN [thread EXCEPT !.pc = "panicked"]
                     ELSE [thread EXCEPT
                              !.pc = "loop",
                              !.next = thread.next + 1,
                              !.results = Append(thread.results,
                                  [index |-> thread.files[thread.next],
                                   ok |-> ended = "ok"])]
    /\ UNCHANGED <<files, output_dir, phase, cancel_flag, convert_handle, cancel,
                   cancelled_at>>
    /\ UNCHANGED notGuiVars

\* cancel_conversion (the button is shown while converting): the flag is set.
cancel_conversion ==
    /\ phase = "Converting"
    /\ cancel' = IF cancel_flag THEN TRUE ELSE cancel
    /\ cancelled_at' = IF cancel_flag /\ ~cancel
                       THEN [some |-> TRUE, results |-> Len(thread.results),
                             in_progress |-> thread.pc = "converting"]
                       ELSE cancelled_at
    /\ UNCHANGED <<files, output_dir, phase, cancel_flag, convert_handle, thread>>
    /\ UNCHANGED notGuiVars

\* The polling loop finds the thread finished: join (no results after a
\* panic), one status per result, then every entry still Converting goes
\* back to Pending.
PollFinished ==
    /\ phase = "Converting"
    /\ convert_handle
    /\ thread.pc \in {"returned", "panicked"}
    /\ LET joined == IF thread.pc = "returned" THEN thread.results ELSE << >>
           ResultOf(i) == {k \in 1..Len(joined) : joined[k].index = i}
       IN  files' = [i \in 1..Len(files) |->
                        IF ResultOf(i) # {}
                        THEN [files[i] EXCEPT !.status =
                                 IF joined[SetMin(ResultOf(i))].ok THEN "Done"
                                 ELSE "Failed"]
                        ELSE IF files[i].status = "Converting"
                        THEN [files[i] EXCEPT !.status = "Pending"]
                        ELSE files[i]]
    /\ convert_handle' = FALSE
    /\ cancel_flag' = FALSE
    /\ phase' = "Done"
    /\ UNCHANGED <<output_dir, cancel, thread, cancelled_at>>
    /\ UNCHANGED notGuiVars

NextGui ==
    \/ AddListedPath
    \/ ScanFinished
    \/ ChangeOutputDir
    \/ start_conversion
    \/ spawn_conversion_next
    \/ spawn_conversion_convert
    \/ cancel_conversion
    \/ PollFinished

SpecGui == InitGui /\ [][NextGui]_vars

\* ---- C30 ----
\* The worker takes a file: it leaves the head of its loop for a conversion.
StartsFile == thread.pc = "loop" /\ thread'.pc = "converting"
\* The files of the run the worker never took.
NotStarted ==
    {thread.files[k] : k \in (IF thread.pc \in {"converting", "panicked"}
                              THEN thread.next + 1 ELSE thread.next)..Len(thread.files)}
\* The step in which the polling loop ends the run.
RunEnds == phase = "Converting" /\ phase' = "Done"
\* After cancel was set at most the file then in progress completed.
AtMostOneMore ==
    cancelled_at.some =>
        Len(thread.results) <= cancelled_at.results
                                  + (IF cancelled_at.in_progress THEN 1 ELSE 0)
NoResultFor(i) == \A k \in 1..Len(thread.results) : thread.results[k].index # i

\* C30: in the GUI conversion run, once the cancel flag has been set the
\* worker starts no further file conversion: at most the file in progress
\* completes, every file not started yields no result and returns to
\* Pending, and no file is left Converting when the run ends.
C30_CancelStopsRun ==
    /\ [][cancel => ~StartsFile]_vars
    /\ []AtMostOneMore
    /\ [][RunEnds /\ cancel =>
            /\ \A i \in 1..Len(files) : files'[i].status # "Converting"
            /\ \A i \in NotStarted : NoResultFor(i) /\ files'[i].status = "Pending"]_vars

\* C30 as coded: the same, except that a file not started is Pending or
\* carries the Failed of a scan result applied to it during the run.
C30_CancelAsCoded ==
    /\ [][cancel => ~StartsFile]_vars
    /\ []AtMostOneMore
    /\ [][RunEnds /\ cancel =>
            /\ \A i \in 1..Len(files) : files'[i].status # "Converting"
            /\ \A i \in NotStarted :
                   NoResultFor(i) /\ files'[i].status \in {"Pending", "Failed"}]_vars

\* A run cancelled while its first file was converting has ended: that file
\* is Done, and a file never started is Failed, not Pending.
C30_NotStartedFailed ==
    /\ phase = "Done"
    /\ thread.pc = "returned"
    /\ cancel
    /\ cancelled_at.some
    /\ cancelled_at.in_progress
    /\ Len(thread.results) = 1
    /\ \E i \in NotStarted : files[i].status = "Failed" /\ ~files[i].scan
    /\ files[thread.files[1]].status = "Done"
====
